---- MODULE Spec2Model ----
(***************************************************************************)
(* Model of the Pinterest scraper (src/app.py and its variants             *)
(* src/app_filters.py, src/pinterest_scraper_rich.py,                      *)
(* src/pinterest_scraper.py): the listing crawler, the run loop with its   *)
(* final de-duplication, the record resolver, the JSON substructure search *)
(* and the compact-number normaliser.                                      *)
(*                                                                         *)
(* Text is modelled as a sequence of tokens (an href) or of characters     *)
(* (a counter text); Python's None is NoneText or NoMatch.                  *)
(***************************************************************************)
EXTENDS Integers, Sequences, FiniteSets, TLC

VARIABLES
    \* ---- listing crawler (collect_pin_urls_for_keyword) ----
    limit_n,      \* the target count
    collected,    \* list of references collected so far
    seen,         \* set of references seen this pass
    no_growth,    \* the idle counter
    cpc,          \* position in the crawl loop: "test", "scroll", "done"
    iters,        \* number of loop bodies entered (history)
    scrolls,      \* number of scroll_results calls (history)
    firstSeen,    \* distinct references in the order the extracted views showed them (history)
    last_growth,  \* the loop body that last added a reference, 0 when none did (history)
    result,       \* the returned list, meaningful once cpc = "done"
    \* ---- run loop (the "Start scraper" block of app.py) ----
    work_df,      \* the keyword rows: sequence of [keyword, limit]
    default_limit,\* the sidebar's default limit
    kw_index,     \* number of keyword rows started
    pin_urls,     \* the references of the current listing pass
    pin_i,        \* number of references of the current pass already resolved
    rows,         \* the accumulator of records
    out_df,       \* the output table
    failed_log,   \* the references logged as failed
    listed,       \* number of references the listing passes returned so far (history)
    emitted,      \* the fractions given to the progress indicator, as <<numerator, denominator>>
    rpc,          \* position in the run: "build", "search", "resolve", "finish", "done", "failed"
    driver,       \* the browser session of the run: "none", "open", "quit"
    \* ---- JSON substructure search (find_first_pin_like_dict) ----
    f_obj,        \* the JSON value searched
    f_hint,       \* pin_id_hint, <<>> for none
    f_res,        \* the value returned
    fpc,          \* "call" before the search, "done" after it
    \* ---- compact-number normaliser (parse_compact_number) ----
    n_in,         \* the text given, NoneText for a missing value
    n_out,        \* the text returned
    npc,          \* "call" before the call, "done" after it
    \* ---- record resolver (scrape_pin_detail) ----
    pin_dict,     \* the candidate mapping the base fields are read from
    fields,       \* the working field-set, one text per field
    dpc,          \* the stage: "inline", "cdp", "scripts", "base", "closeup", "dom", "domcounts", "normalize", "frozen", "raised"
    supplied,     \* per field, the first non-empty value a tier supplied (history)
    tiers,        \* the tiers entered so far, in the order they were entered (history)
    \* ---- field merge (enrich_from_closeup_data, base image fields) ----
    m_a,          \* a source mapping
    m_b,          \* a second source mapping
    m_base,       \* the base fields read from m_a
    m_one,        \* m_a merged into the empty field-set
    m_ab,         \* m_a then m_b merged into the empty field-set
    m_ba,         \* m_b then m_a merged into the empty field-set
    mpc,          \* "call" before the merges, "done" after them
    \* ---- capture-log miner (hunt_json_in_cdp_logs) within one resolution ----
    h_logs,       \* the entries driver.get_log gives, oldest first
    h_readable,   \* FALSE when driver.get_log raises
    h_hint,       \* the pin_id of the page, <<>> for none
    h_call,       \* 1: the call of stage 2 (with pin_id), 2: the call of get_closeup_data_from_any (with "")
    h_pos,        \* index in h_logs of the entry the for loop takes next
    h_fetched,    \* the bodies fetched so far, as <<call, index of the entry>> (history)
    h_res,        \* the value the call returned
    h_kind,       \* how h_res was found: "closeup", "generic" or "none" (history)
    h_ret,        \* index of the entry that gave h_res, 0 for none (history)
    hpc,          \* "call", "scan", "returned", "raised"
    \* ---- script hunt of stage 3 (the loop over hunt_json_in_scripts) ----
    s_blobs,      \* the JSON blobs gathered from the script tags and the markup, in order
    s_hint,       \* the pin_id of the page, <<>> for none
    s_cand,       \* the candidate the loop chose
    spc           \* "call" before the loop, "done" after it

crawlVars == <<limit_n, collected, seen, no_growth, cpc, iters, scrolls, firstSeen, last_growth, result>>
runVars == <<work_df, default_limit, kw_index, pin_urls, pin_i, rows, out_df, failed_log, listed,
            emitted, rpc, driver>>

findVars == <<f_obj, f_hint, f_res, fpc>>

numVars == <<n_in, n_out, npc>>

detailVars == <<pin_dict, fields, dpc, supplied, tiers>>

mergeVars == <<m_a, m_b, m_base, m_one, m_ab, m_ba, mpc>>

huntVars == <<h_logs, h_readable, h_hint, h_call, h_pos, h_fetched, h_res, h_kind, h_ret, hpc>>

scriptsVars == <<s_blobs, s_hint, s_cand, spc>>

vars == <<crawlVars, runVars, findVars, numVars, detailVars, mergeVars, huntVars, scriptsVars>>

notCrawl == <<runVars, findVars, numVars, detailVars, mergeVars, huntVars, scriptsVars>>
notRun == <<crawlVars, findVars, numVars, detailVars, mergeVars, huntVars, scriptsVars>>
notFind == <<crawlVars, runVars, numVars, detailVars, mergeVars, huntVars, scriptsVars>>
notNum == <<crawlVars, runVars, findVars, detailVars, mergeVars, huntVars, scriptsVars>>
notDetail == <<crawlVars, runVars, findVars, numVars, mergeVars, huntVars, scriptsVars>>
notMerge == <<crawlVars, runVars, findVars, numVars, detailVars, huntVars, scriptsVars>>
notHunt == <<crawlVars, runVars, findVars, numVars, detailVars, mergeVars, scriptsVars>>
notScripts == <<crawlVars, runVars, findVars, numVars, detailVars, mergeVars, huntVars>>

\* a text is a sequence of characters; NoneText stands for None given as a text
NoneText == <<"None">>

\* a JSON value is a pair <<tag, payload>>: <<"map", sequence of <<key, value>>>>
\* in insertion order with each key a text, <<"list", sequence of values>>, <<"str", characters>>,
\* <<"int", digits>>, <<"null", <<>>>>; NoMatch is Python's None as a result
NoMatch == <<"None", <<>>>>

\* the working field-set with every field empty
EmptyFields ==
    [title |-> <<>>, description |-> <<>>, created_at |-> <<>>,
     image_url |-> <<>>, image_width |-> <<>>, image_height |-> <<>>,
     save_count |-> <<>>, comment_count |-> <<>>,
     pinner_username |-> <<>>, pinner_fullname |-> <<>>, pinner_profile_url |-> <<>>,
     board_name |-> <<>>, board_url |-> <<>>, outbound_link |-> <<>>]

\* the crawler at rest, for the specifications of the other components
IdleCrawl ==
    /\ limit_n = 0
    /\ collected = <<>>
    /\ seen = {}
    /\ no_growth = 0
    /\ cpc = "idle"
    /\ iters = 0
    /\ scrolls = 0
    /\ firstSeen = <<>>
    /\ last_growth = 0
    /\ result = <<>>

\* the search at rest, for the specifications of the other components
IdleFind ==
    /\ f_obj = NoMatch
    /\ f_hint = <<>>
    /\ f_res = NoMatch
    /\ fpc = "idle"

\* the normaliser at rest, for the specifications of the other components
IdleNum ==
    /\ n_in = <<>>
    /\ n_out = <<>>
    /\ npc = "idle"

\* the resolver at rest, for the specifications of the other components
IdleDetail ==
    /\ pin_dict = <<"map", <<>>>>
    /\ fields = EmptyFields
    /\ dpc = "idle"
    /\ supplied = [title |-> <<>>, description |-> <<>>]
    /\ tiers = <<>>

\* the merge at rest, for the specifications of the other components
IdleMerge ==
    /\ m_a = <<"map", <<>>>>
    /\ m_b = <<"map", <<>>>>
    /\ m_base = EmptyFields
    /\ m_one = EmptyFields
    /\ m_ab = EmptyFields
    /\ m_ba = EmptyFields
    /\ mpc = "idle"

\* the capture-log miner at rest, for the specifications of the other components
IdleHunt ==
    /\ h_logs = <<>>
    /\ h_readable = TRUE
    /\ h_hint = <<>>
    /\ h_call = 0
    /\ h_pos = 0
    /\ h_fetched = <<>>
    /\ h_res = <<"None", <<>>>>
    /\ h_kind = "none"
    /\ h_ret = 0
    /\ hpc = "idle"

\* the script hunt at rest, for the specifications of the other components
IdleScripts ==
    /\ s_blobs = <<>>
    /\ s_hint = <<>>
    /\ s_cand = <<"None", <<>>>>
    /\ spc = "idle"

\* the run loop at rest, for the specifications of the other components
IdleRun ==
    /\ work_df = <<>>
    /\ default_limit = 1
    /\ kw_index = 0
    /\ pin_urls = <<>>
    /\ pin_i = 0
    /\ rows = <<>>
    /\ out_df = <<>>
    /\ failed_log = <<>>
    /\ listed = 0
    /\ emitted = <<>>
    /\ rpc = "idle"
    /\ driver = "none"

Max(a, b) == IF a >= b THEN a ELSE b

\* n copies of e
Copies(e, n) == [i \in 1..n |-> e]
Min(a, b) == IF a <= b THEN a ELSE b

\* F of the value of x, the value being computed once
Of(F(_), x) == CHOOSE r \in { F(v) : v \in {x} } : TRUE

\* a loop over lo..hi: the steps Step(s, lo), ..., Step(s, hi) taken in
\* order from the value s, each from the value the one before it left. The
\* range is halved, and the first half is finished before the second begins.
RECURSIVE Loop(_, _, _, _)
Loop(Step(_, _), s, lo, hi) ==
    IF lo > hi THEN s
    ELSE IF lo = hi THEN Step(s, lo)
    ELSE LET mid == (lo + hi) \div 2
         IN  CHOOSE r \in { Loop(Step, m, mid + 1, hi) : m \in { Loop(Step, s, lo, mid) } } : TRUE

\* seq[:n] of Python, n possibly negative
PySliceTo(seq, n) ==
    IF n >= 0 THEN SubSeq(seq, 1, Min(n, Len(seq)))
    ELSE SubSeq(seq, 1, Max(Len(seq) + n, 0))

SeqToSet(seq) == {seq[i] : i \in 1..Len(seq)}

(***************************************************************************)
(* Listing crawler                                                         *)
(***************************************************************************)

\* bounds of the crawl model
MaxLimit == 3
MaxView == 2
NumPins == 3

\* the idle threshold of the while loop
IdleLimit == 6

\* the text from position i on starts with word
StartsAt(t, i, word) ==
    i + Len(word) - 1 <= Len(t) /\ SubSeq(t, i, i + Len(word) - 1) = word

\* word in t
HasSub(t, word) == \E i \in 1..Len(t) : StartsAt(t, i, word)

\* s.split(sep)[0] for a sep of one character: the text before the first
\* sep, all of t when there is none
SplitFirst(t, sep) ==
    IF \E i \in 1..Len(t) : t[i] = sep
    THEN SubSeq(t, 1, (CHOOSE i \in 1..Len(t) : t[i] = sep /\ \A h \in 1..(i - 1) : t[h] # sep) - 1)
    ELSE t

\* href.split("?")[0].split("#")[0]
NormalizeHref(href) == SplitFirst(SplitFirst(href, "?"), "#")

PinSegment == <<"/", "p", "i", "n", "/">>

\* "/pin/" in href
HasPinPath(href) == HasSub(href, PinSegment)

\* the href attribute values a rendered anchor can carry; <<>> is the empty
\* text safe_get_attr gives for a failed read
PinIds == { ToString(p) : p \in 1..NumPins }

PinHrefs ==
    { PinSegment \o <<p>> : p \in PinIds }
        \cup { PinSegment \o <<"1", "?", "q">>, PinSegment \o <<"1", "#", "f">> }

HrefPool == PinHrefs \cup { <<>> }

RECURSIVE SeqsUpTo(_, _)
SeqsUpTo(S, n) ==
    IF n = 0 THEN { <<>> }
    ELSE LET shorter == SeqsUpTo(S, n - 1)
         IN  shorter \cup { Append(s, x) : s \in { t \in shorter : Len(t) = n - 1 }, x \in S }

Views == SeqsUpTo(HrefPool, MaxView)

RECURSIVE extract_pin_urls_from_view(_, _)
extract_pin_urls_from_view(anchors, seen_urls) ==
    IF anchors = <<>> THEN <<>>
    ELSE LET href == Head(anchors)
             rest == extract_pin_urls_from_view(Tail(anchors), seen_urls)
         IN  IF href = <<>> \/ ~HasPinPath(href) THEN rest
             ELSE IF NormalizeHref(href) \in seen_urls THEN rest
             ELSE <<NormalizeHref(href)>> \o rest

\* the for loop over the batch without its "u not in seen" test
RECURSIVE AppendBatchNoSeenTest(_, _, _, _)
AppendBatchNoSeenTest(c, s, batch, n) ==
    IF batch = <<>> THEN [c |-> c, s |-> s]
    ELSE LET u == Head(batch)
         IN  IF Len(c) + 1 >= n
             THEN [c |-> Append(c, u), s |-> s \cup {u}]
             ELSE AppendBatchNoSeenTest(Append(c, u), s \cup {u}, Tail(batch), n)

\* the for loop over the batch: append unseen references, break at the limit
RECURSIVE AppendBatch(_, _, _, _)
AppendBatch(c, s, batch, n) ==
    IF batch = <<>> THEN [c |-> c, s |-> s]
    ELSE LET u == Head(batch)
         IN  IF u \notin s
             THEN IF Len(c) + 1 >= n
                  THEN [c |-> Append(c, u), s |-> s \cup {u}]
                  ELSE AppendBatch(Append(c, u), s \cup {u}, Tail(batch), n)
             ELSE AppendBatch(c, s, Tail(batch), n)

\* the while condition, with <= for < on the idle counter
LoopCondLe(c, g, n) == Len(c) < n /\ g <= IdleLimit

\* the while condition
LoopCond(c, g, n) == Len(c) < n /\ g < IdleLimit

\* the update of the idle counter with its reset left out
IdleUpdateNoReset(g, before, after) == IF after = before THEN g + 1 ELSE g

\* the update of the idle counter after the for loop: one more idle loop body
\* when the list has the length it had before, 0 otherwise
IdleUpdate(g, before, after) == IF after = before THEN g + 1 ELSE 0

\* the distinct normalised references of a view appended to the history
RECURSIVE NoteRendered(_, _)
NoteRendered(hist, anchors) ==
    IF anchors = <<>> THEN hist
    ELSE LET h == Head(anchors)
             r == NormalizeHref(h)
         IN  IF h # <<>> /\ HasPinPath(h) /\ r \notin SeqToSet(hist)
             THEN NoteRendered(Append(hist, r), Tail(anchors))
             ELSE NoteRendered(hist, Tail(anchors))

InitCrawl ==
    /\ limit_n \in -1..MaxLimit
    /\ collected = <<>>
    /\ seen = {}
    /\ no_growth = 0
    /\ cpc = "test"
    /\ iters = 0
    /\ scrolls = 0
    /\ firstSeen = <<>>
    /\ last_growth = 0
    /\ result = <<>>

\* one pass through the loop body up to the scroll call; the view is what the
\* source renders at that moment
CrawlIterate ==
    /\ cpc = "test"
    /\ LoopCond(collected, no_growth, limit_n)
    /\ \E view \in Views :
         LET batch == extract_pin_urls_from_view(view, seen)
             after == AppendBatch(collected, seen, batch, limit_n)
         IN  /\ collected' = after.c
             /\ seen' = after.s
             /\ no_growth' = IdleUpdate(no_growth, Len(collected), Len(after.c))
             /\ firstSeen' = NoteRendered(firstSeen, view)
             /\ last_growth' = IF after.c # collected THEN iters + 1 ELSE last_growth
    /\ iters' = iters + 1
    /\ cpc' = "scroll"
    /\ UNCHANGED <<limit_n, scrolls, result>>
    /\ UNCHANGED notCrawl

\* scroll_results at the end of the loop body
ScrollResults ==
    /\ cpc = "scroll"
    /\ scrolls' = scrolls + 1
    /\ cpc' = "test"
    /\ UNCHANGED <<limit_n, collected, seen, no_growth, iters, firstSeen, last_growth, result>>
    /\ UNCHANGED notCrawl

\* the loop condition fails: return collected[:limit_n]
CrawlReturn ==
    /\ cpc = "test"
    /\ ~LoopCond(collected, no_growth, limit_n)
    /\ result' = PySliceTo(collected, limit_n)
    /\ cpc' = "done"
    /\ UNCHANGED <<limit_n, collected, seen, no_growth, iters, scrolls, firstSeen, last_growth>>
    /\ UNCHANGED notCrawl

NextCrawl == CrawlIterate \/ ScrollResults \/ CrawlReturn

\* a listing pass on its own
InitSpec == InitCrawl /\ IdleRun /\ IdleFind /\ IdleNum /\ IdleDetail /\ IdleMerge /\ IdleHunt /\ IdleScripts

Spec == InitSpec /\ [][NextCrawl]_vars

\* the sequential loop keeps running: every enabled step is eventually taken
FairSpec == InitSpec /\ [][NextCrawl]_vars /\ WF_vars(NextCrawl)

(***************************************************************************)
(* Claims about the listing crawler                                        *)
(***************************************************************************)

\* C1: with a target count N >= 1 and a source whose extracted views never
\* show an entity reference, the loop body runs at most 6 times, and when the
\* pass returns it has run exactly 6 times, scrolled 6 times and returns the
\* empty list.
C1_NoYieldSixIterations ==
    (limit_n >= 1 /\ firstSeen = <<>>) =>
        /\ iters <= 6
        /\ cpc = "done" => (iters = 6 /\ scrolls = 6 /\ result = <<>>)

C1_Witness ==
    cpc = "done" /\ limit_n >= 1 /\ firstSeen = <<>> /\ iters = 6 /\ result = <<>>

\* C2: once the collected list has reached the target count N, no scroll step
\* is triggered any more.
C2_NoScrollAfterTarget ==
    [][(limit_n >= 1 /\ Len(collected) >= limit_n) => scrolls' = scrolls]_vars

\* C3: a pass with target N >= 1 returns the first N of the distinct
\* references its views showed, in first-seen order, and all of them when
\* there are fewer than N.
C3_FirstNInFirstSeenOrder ==
    (cpc = "done" /\ limit_n >= 1) =>
        result = SubSeq(firstSeen, 1, Min(limit_n, Len(firstSeen)))

C3_Witness ==
    /\ cpc = "done"
    /\ limit_n >= 2
    /\ Len(firstSeen) > limit_n
    /\ Len(result) = limit_n
    /\ iters >= 2

C4_Bound ==
    /\ limit_n >= 1 => iters <= 6 * limit_n
    /\ limit_n <= 0 => (iters = 0 /\ scrolls = 0 /\ (cpc = "done" => result = <<>>))

\* C4: whatever the source renders, a pass with target N >= 1 returns after at
\* most 6*N loop bodies; with N <= 0 it runs none and returns the empty list.
C4_Terminates == []C4_Bound /\ <>(cpc = "done")

C4_Witness == cpc = "done" /\ limit_n >= 2 /\ iters = 6 * limit_n

(***************************************************************************)
(* Run loop and final de-duplication                                       *)
(***************************************************************************)

\* bounds of the run model
MaxKw == 2
MaxRunLimit == 2

\* the keyword of the i-th row of the table
KeywordAt(i) == <<"keyword", i>>

\* the titles a resolution can find
Titles == {"A", "B"}

\* the normalised references a listing pass can return
RunRefs == { PinSegment \o <<"1">>, PinSegment \o <<"2">> }

\* the keyword tables of the run: 1..MaxKw rows, a limit of 0 is a missing one
WorkTables ==
    UNION { { [i \in 1..n |-> [keyword |-> KeywordAt(i), limit |-> l[i]]] : l \in [1..n -> 0..MaxRunLimit] }
            : n \in 1..MaxKw }

NoDup(seq) == \A i, j \in 1..Len(seq) : i # j => seq[i] # seq[j]

\* what collect_pin_urls_for_keyword can return for a limit: a list of at most
\* limit distinct references
ListingResults(lim) == { l \in SeqsUpTo(RunRefs, lim) : NoDup(l) }

\* DataFrame.drop_duplicates(subset=["pin_url"], keep="last")
RECURSIVE DropDuplicatesKeepLast(_)
DropDuplicatesKeepLast(df) ==
    IF df = <<>> THEN <<>>
    ELSE IF \E j \in 2..Len(df) : df[j].pin_url = Head(df).pin_url
         THEN DropDuplicatesKeepLast(Tail(df))
         ELSE <<Head(df)>> \o DropDuplicatesKeepLast(Tail(df))

\* DataFrame.drop_duplicates(subset=["pin_url"]): keep="first" is the default
RECURSIVE DropDupFrom(_, _)
DropDupFrom(df, keys) ==
    IF df = <<>> THEN <<>>
    ELSE IF Head(df).pin_url \in keys
         THEN DropDupFrom(Tail(df), keys)
         ELSE <<Head(df)>> \o DropDupFrom(Tail(df), keys \cup {Head(df).pin_url})

drop_duplicates(df) == DropDupFrom(df, {})

InitRun ==
    /\ work_df \in WorkTables
    /\ default_limit \in 1..MaxRunLimit
    /\ kw_index = 0
    /\ pin_urls = <<>>
    /\ pin_i = 0
    /\ rows = <<>>
    /\ out_df = <<>>
    /\ failed_log = <<>>
    /\ listed = 0
    /\ emitted = << <<0, 1>> >>
    /\ rpc = "build"
    /\ driver = "none"

\* variant: the fraction of the current listing pass only
DoneRatioOfPass(k, i, n, total_kw) == <<i, Max(1, n) * Max(1, total_kw)>>

\* done_ratio = ((kw_index - 1) + i / max(1, len(pin_urls))) / max(1, total_kw),
\* as the fraction <<numerator, denominator>>
DoneRatio(k, i, n, total_kw) == <<(k - 1) * Max(1, n) + i, Max(1, n) * Max(1, total_kw)>>

\* min(1.0, done_ratio)
PyMinOne(r) == IF r[1] > r[2] THEN <<1, 1>> ELSE r

\* build_driver returns a session
BuildDriver ==
    /\ rpc = "build"
    /\ rpc' = "search"
    /\ driver' = "open"
    /\ UNCHANGED <<work_df, default_limit, kw_index, pin_urls, pin_i, rows, out_df, failed_log, listed, emitted>>
    /\ UNCHANGED notRun

\* build_driver raises: the outer except reports the run as failed
BuildDriverFails ==
    /\ rpc = "build"
    /\ rpc' = "failed"
    /\ UNCHANGED <<driver, work_df, default_limit, kw_index, pin_urls, pin_i, rows, out_df, failed_log, listed, emitted>>
    /\ UNCHANGED notRun

\* the limit of a keyword row
RowLimit(r, dflt) == IF r.limit # 0 THEN r.limit ELSE dflt

\* the next keyword row: collect_pin_urls_for_keyword returns
SearchKeyword ==
    /\ rpc = "search"
    /\ kw_index < Len(work_df)
    /\ kw_index' = kw_index + 1
    /\ pin_urls' \in ListingResults(RowLimit(work_df[kw_index + 1], default_limit))
    /\ listed' = listed + Len(pin_urls')
    /\ pin_i' = 0
    /\ rpc' = "resolve"
    /\ UNCHANGED <<driver, work_df, default_limit, rows, out_df, failed_log, emitted>>
    /\ UNCHANGED notRun

\* the next keyword row: collect_pin_urls_for_keyword raises, the outer except
\* reports the run as failed
SearchKeywordFails ==
    /\ rpc = "search"
    /\ kw_index < Len(work_df)
    /\ kw_index' = kw_index + 1
    /\ rpc' = "failed"
    /\ UNCHANGED <<driver, work_df, default_limit, pin_urls, pin_i, rows, out_df, failed_log, listed, emitted>>
    /\ UNCHANGED notRun

\* scrape_pin_detail returns a record for the next reference
ResolvePin ==
    /\ rpc = "resolve"
    /\ pin_i < Len(pin_urls)
    /\ \E t \in Titles :
         rows' = Append(rows, [keyword |-> work_df[kw_index].keyword,
                               pin_url |-> pin_urls[pin_i + 1],
                               title |-> t])
    /\ pin_i' = pin_i + 1
    /\ emitted' = Append(emitted, PyMinOne(DoneRatio(kw_index, pin_i + 1, Len(pin_urls), Len(work_df))))
    /\ UNCHANGED <<driver, work_df, default_limit, kw_index, pin_urls, out_df, failed_log, listed, rpc>>
    /\ UNCHANGED notRun

\* variant: a failed resolution ends the run
ResolvePinFailsAborts ==
    /\ rpc = "resolve"
    /\ pin_i < Len(pin_urls)
    /\ failed_log' = Append(failed_log, pin_urls[pin_i + 1])
    /\ rpc' = "failed"
    /\ UNCHANGED <<driver, work_df, default_limit, kw_index, pin_urls, pin_i, rows, out_df, listed, emitted>>
    /\ UNCHANGED notRun

\* scrape_pin_detail raises for the next reference: logged, no record
ResolvePinFails ==
    /\ rpc = "resolve"
    /\ pin_i < Len(pin_urls)
    /\ failed_log' = Append(failed_log, pin_urls[pin_i + 1])
    /\ pin_i' = pin_i + 1
    /\ emitted' = Append(emitted, PyMinOne(DoneRatio(kw_index, pin_i + 1, Len(pin_urls), Len(work_df))))
    /\ UNCHANGED <<driver, work_df, default_limit, kw_index, pin_urls, rows, out_df, listed, rpc>>
    /\ UNCHANGED notRun

\* the inner for loop is exhausted
EndListing ==
    /\ rpc = "resolve"
    /\ pin_i = Len(pin_urls)
    /\ rpc' = "search"
    /\ UNCHANGED <<driver, work_df, default_limit, kw_index, pin_urls, pin_i, rows, out_df, failed_log, listed, emitted>>
    /\ UNCHANGED notRun

\* all keyword rows done: driver.quit, progress 1.0, the table is built and
\* de-duplicated
FinishRun ==
    /\ rpc = "search"
    /\ kw_index = Len(work_df)
    /\ out_df' = IF rows # <<>> THEN drop_duplicates(rows) ELSE rows
    /\ emitted' = Append(emitted, <<1, 1>>)
    /\ rpc' = "done"
    /\ driver' = "quit"
    /\ UNCHANGED <<work_df, default_limit, kw_index, pin_urls, pin_i, rows, failed_log, listed>>
    /\ UNCHANGED notRun

NextRun ==
    \/ BuildDriver
    \/ BuildDriverFails
    \/ SearchKeyword
    \/ SearchKeywordFails
    \/ ResolvePin
    \/ ResolvePinFails
    \/ EndListing
    \/ FinishRun

\* a run on its own
InitSpecRun == InitRun /\ IdleCrawl /\ IdleFind /\ IdleNum /\ IdleDetail /\ IdleMerge /\ IdleHunt /\ IdleScripts

SpecRun == InitSpecRun /\ [][NextRun]_vars

(***************************************************************************)
(* Claims about the run loop                                               *)
(***************************************************************************)

\* index of the first row with the given entity URL
FirstIndex(df, u) == CHOOSE i \in 1..Len(df) : df[i].pin_url = u /\ \A j \in 1..(i - 1) : df[j].pin_url # u

\* C5: after the final de-duplication the output holds at most one record
\* per entity URL, for every URL accumulated the retained record is the first
\* one appended with it, and the retained records stand in their order of
\* accumulation.
C5_DedupKeepsFirst ==
    rpc = "done" =>
        /\ \A i, j \in 1..Len(out_df) : i # j => out_df[i].pin_url # out_df[j].pin_url
        /\ { out_df[i].pin_url : i \in 1..Len(out_df) } = { rows[i].pin_url : i \in 1..Len(rows) }
        /\ \A i \in 1..Len(out_df) : out_df[i] = rows[FirstIndex(rows, out_df[i].pin_url)]
        /\ \A i, j \in 1..Len(out_df) :
             i < j => FirstIndex(rows, out_df[i].pin_url) < FirstIndex(rows, out_df[j].pin_url)

\* two records of one URL with different field values were accumulated, and
\* another URL was accumulated between them
C5_Witness ==
    /\ rpc = "done"
    /\ Len(out_df) >= 2
    /\ \E i, j \in 1..Len(rows) :
         /\ i + 1 < j
         /\ rows[i].pin_url = rows[j].pin_url
         /\ rows[i].title # rows[j].title
         /\ rows[i].keyword # rows[j].keyword

(***************************************************************************)
(* Characters                                                              *)
(***************************************************************************)

\* A text is a sequence of characters. A printable character up to U+00FF is
\* written as itself, tab, newline, form feed and carriage return by their
\* escapes, any other character as "U+" and its code point in hexadecimal.
\* The characters of a text are those Unicode 14 assigns; surrogates,
\* private-use and unassigned code points do not occur.

\* the texts the model writes by name, character by character
Spelling ==
    ("/pin/9/" :> <<"/", "p", "i", "n", "/", "9", "/">>) @@
    ("/user1/" :> <<"/", "u", "s", "e", "r", "1", "/">>) @@
    ("236x" :> <<"2", "3", "6", "x">>) @@
    ("4.1K saves" :> <<"4", ".", "1", "K", " ", "s", "a", "v", "e", "s">>) @@
    ("474x" :> <<"4", "7", "4", "x">>) @@
    ("564x" :> <<"5", "6", "4", "x">>) @@
    ("7comment" :> <<"7", "c", "o", "m", "m", "e", "n", "t">>) @@
    ("Application/JSON" :> <<"A", "p", "p", "l", "i", "c", "a", "t", "i", "o", "n", "/", "J", "S",
                             "O", "N">>) @@
    ("CloseupDetailQuery" :> <<"C", "l", "o", "s", "e", "u", "p", "D", "e", "t", "a", "i", "l",
                               "Q", "u", "e", "r", "y">>) @@
    ("Ideas/" :> <<"I", "d", "e", "a", "s", "/">>) @@
    ("aggregatedPinData" :> <<"a", "g", "g", "r", "e", "g", "a", "t", "e", "d", "P", "i", "n",
                              "D", "a", "t", "a">>) @@
    ("aggregatedStats" :> <<"a", "g", "g", "r", "e", "g", "a", "t", "e", "d", "S", "t", "a", "t",
                            "s">>) @@
    ("aggregated_pin_data" :> <<"a", "g", "g", "r", "e", "g", "a", "t", "e", "d", "_", "p", "i",
                                "n", "_", "d", "a", "t", "a">>) @@
    ("application/json" :> <<"a", "p", "p", "l", "i", "c", "a", "t", "i", "o", "n", "/", "j", "s",
                             "o", "n">>) @@
    ("b saves" :> <<"b", " ", "s", "a", "v", "e", "s">>) @@
    ("board" :> <<"b", "o", "a", "r", "d">>) @@
    ("closeupUnifiedDescription" :> <<"c", "l", "o", "s", "e", "u", "p", "U", "n", "i", "f", "i",
                                      "e", "d", "D", "e", "s", "c", "r", "i", "p", "t", "i", "o",
                                      "n">>) @@
    ("comment" :> <<"c", "o", "m", "m", "e", "n", "t">>) @@
    ("commentCount" :> <<"c", "o", "m", "m", "e", "n", "t", "C", "o", "u", "n", "t">>) @@
    ("comments" :> <<"c", "o", "m", "m", "e", "n", "t", "s">>) @@
    ("counts" :> <<"c", "o", "u", "n", "t", "s">>) @@
    ("createdAt" :> <<"c", "r", "e", "a", "t", "e", "d", "A", "t">>) @@
    ("created_at" :> <<"c", "r", "e", "a", "t", "e", "d", "_", "a", "t">>) @@
    ("data" :> <<"d", "a", "t", "a">>) @@
    ("description" :> <<"d", "e", "s", "c", "r", "i", "p", "t", "i", "o", "n">>) @@
    ("dominant_link" :> <<"d", "o", "m", "i", "n", "a", "n", "t", "_", "l", "i", "n", "k">>) @@
    ("fullName" :> <<"f", "u", "l", "l", "N", "a", "m", "e">>) @@
    ("full_name" :> <<"f", "u", "l", "l", "_", "n", "a", "m", "e">>) @@
    ("gridTitle" :> <<"g", "r", "i", "d", "T", "i", "t", "l", "e">>) @@
    ("grid_title" :> <<"g", "r", "i", "d", "_", "t", "i", "t", "l", "e">>) @@
    ("height" :> <<"h", "e", "i", "g", "h", "t">>) @@
    ("http" :> <<"h", "t", "t", "p">>) @@
    ("http://a 2x, http://b" :> <<"h", "t", "t", "p", ":", "/", "/", "a", " ", "2", "x", ",", " ",
                                  "h", "t", "t", "p", ":", "/", "/", "b">>) @@
    ("http://e" :> <<"h", "t", "t", "p", ":", "/", "/", "e">>) @@
    ("http://m" :> <<"h", "t", "t", "p", ":", "/", "/", "m">>) @@
    ("http://n" :> <<"h", "t", "t", "p", ":", "/", "/", "n">>) @@
    ("http://o" :> <<"h", "t", "t", "p", ":", "/", "/", "o">>) @@
    ("http://pinterest.com/" :> <<"h", "t", "t", "p", ":", "/", "/", "p", "i", "n", "t", "e", "r",
                                  "e", "s", "t", ".", "c", "o", "m", "/">>) @@
    ("https://s 2x" :> <<"h", "t", "t", "p", "s", ":", "/", "/", "s", " ", "2", "x">>) @@
    ("https://www.pinterest.com" :> <<"h", "t", "t", "p", "s", ":", "/", "/", "w", "w", "w", ".",
                                      "p", "i", "n", "t", "e", "r", "e", "s", "t", ".", "c", "o",
                                      "m">>) @@
    ("https://www.pinterest.com/" :> <<"h", "t", "t", "p", "s", ":", "/", "/", "w", "w", "w", ".",
                                       "p", "i", "n", "t", "e", "r", "e", "s", "t", ".", "c", "o",
                                       "m", "/">>) @@
    ("id" :> <<"i", "d">>) @@
    ("ideas" :> <<"i", "d", "e", "a", "s">>) @@
    ("images" :> <<"i", "m", "a", "g", "e", "s">>) @@
    ("json" :> <<"j", "s", "o", "n">>) @@
    ("link" :> <<"l", "i", "n", "k">>) @@
    ("name" :> <<"n", "a", "m", "e">>) @@
    ("nofollow" :> <<"n", "o", "f", "o", "l", "l", "o", "w">>) @@
    ("noopener" :> <<"n", "o", "o", "p", "e", "n", "e", "r">>) @@
    ("noopener noreferrer" :> <<"n", "o", "o", "p", "e", "n", "e", "r", " ", "n", "o", "r", "e",
                                "f", "e", "r", "r", "e", "r">>) @@
    ("noreferrer" :> <<"n", "o", "r", "e", "f", "e", "r", "r", "e", "r">>) @@
    ("orig" :> <<"o", "r", "i", "g">>) @@
    ("owner" :> <<"o", "w", "n", "e", "r">>) @@
    ("pin/9/" :> <<"p", "i", "n", "/", "9", "/">>) @@
    ("pinner" :> <<"p", "i", "n", "n", "e", "r">>) @@
    ("repinCount" :> <<"r", "e", "p", "i", "n", "C", "o", "u", "n", "t">>) @@
    ("requestParameters" :> <<"r", "e", "q", "u", "e", "s", "t", "P", "a", "r", "a", "m", "e",
                              "t", "e", "r", "s">>) @@
    ("response" :> <<"r", "e", "s", "p", "o", "n", "s", "e">>) @@
    ("save" :> <<"s", "a", "v", "e">>) @@
    ("saveCount" :> <<"s", "a", "v", "e", "C", "o", "u", "n", "t">>) @@
    ("saves" :> <<"s", "a", "v", "e", "s">>) @@
    ("slug" :> <<"s", "l", "u", "g">>) @@
    ("stats" :> <<"s", "t", "a", "t", "s">>) @@
    ("text/html" :> <<"t", "e", "x", "t", "/", "h", "t", "m", "l">>) @@
    ("title" :> <<"t", "i", "t", "l", "e">>) @@
    ("u/b/" :> <<"u", "/", "b", "/">>) @@
    ("u/b/x/" :> <<"u", "/", "b", "/", "x", "/">>) @@
    ("u2/" :> <<"u", "2", "/">>) @@
    ("url" :> <<"u", "r", "l">>) @@
    ("username" :> <<"u", "s", "e", "r", "n", "a", "m", "e">>) @@
    ("v3GetPinQuery" :> <<"v", "3", "G", "e", "t", "P", "i", "n", "Q", "u", "e", "r", "y">>) @@
    ("width" :> <<"w", "i", "d", "t", "h">>) @@
    ("x save" :> <<"x", " ", "s", "a", "v", "e">>)

\* the text with the name given
Chars(name) == Spelling[name]

\* the characters str.isspace accepts: what str.strip removes and \s matches
WhitespaceChars ==
    { "\t", "\n", "U+000B", "\f", "\r", "U+001C", "U+001D", "U+001E", "U+001F", " ", "U+0085",
      "U+00A0", "U+1680", "U+2000", "U+2001", "U+2002", "U+2003", "U+2004", "U+2005", "U+2006",
      "U+2007", "U+2008", "U+2009", "U+200A", "U+2028", "U+2029", "U+202F", "U+205F", "U+3000" }

\* the characters str.isdecimal accepts, by their value 0..9 (DecimalsOf[v + 1]):
\* what \d matches and what float() and int() read as digits
DecimalsOf ==
    << { "0", "U+0660", "U+06F0", "U+07C0", "U+0966", "U+09E6", "U+0A66", "U+0AE6", "U+0B66", "U+0BE6",
         "U+0C66", "U+0CE6", "U+0D66", "U+0DE6", "U+0E50", "U+0ED0", "U+0F20", "U+1040", "U+1090",
         "U+17E0", "U+1810", "U+1946", "U+19D0", "U+1A80", "U+1A90", "U+1B50", "U+1BB0", "U+1C40",
         "U+1C50", "U+A620", "U+A8D0", "U+A900", "U+A9D0", "U+A9F0", "U+AA50", "U+ABF0", "U+FF10",
         "U+104A0", "U+10D30", "U+11066", "U+110F0", "U+11136", "U+111D0", "U+112F0", "U+11450",
         "U+114D0", "U+11650", "U+116C0", "U+11730", "U+118E0", "U+11950", "U+11C50", "U+11D50",
         "U+11DA0", "U+16A60", "U+16AC0", "U+16B50", "U+1D7CE", "U+1D7D8", "U+1D7E2", "U+1D7EC",
         "U+1D7F6", "U+1E140", "U+1E2F0", "U+1E950", "U+1FBF0" },
       { "1", "U+0661", "U+06F1", "U+07C1", "U+0967", "U+09E7", "U+0A67", "U+0AE7", "U+0B67", "U+0BE7",
         "U+0C67", "U+0CE7", "U+0D67", "U+0DE7", "U+0E51", "U+0ED1", "U+0F21", "U+1041", "U+1091",
         "U+17E1", "U+1811", "U+1947", "U+19D1", "U+1A81", "U+1A91", "U+1B51", "U+1BB1", "U+1C41",
         "U+1C51", "U+A621", "U+A8D1", "U+A901", "U+A9D1", "U+A9F1", "U+AA51", "U+ABF1", "U+FF11",
         "U+104A1", "U+10D31", "U+11067", "U+110F1", "U+11137", "U+111D1", "U+112F1", "U+11451",
         "U+114D1", "U+11651", "U+116C1", "U+11731", "U+118E1", "U+11951", "U+11C51", "U+11D51",
         "U+11DA1", "U+16A61", "U+16AC1", "U+16B51", "U+1D7CF", "U+1D7D9", "U+1D7E3", "U+1D7ED",
         "U+1D7F7", "U+1E141", "U+1E2F1", "U+1E951", "U+1FBF1" },
       { "2", "U+0662", "U+06F2", "U+07C2", "U+0968", "U+09E8", "U+0A68", "U+0AE8", "U+0B68", "U+0BE8",
         "U+0C68", "U+0CE8", "U+0D68", "U+0DE8", "U+0E52", "U+0ED2", "U+0F22", "U+1042", "U+1092",
         "U+17E2", "U+1812", "U+1948", "U+19D2", "U+1A82", "U+1A92", "U+1B52", "U+1BB2", "U+1C42",
         "U+1C52", "U+A622", "U+A8D2", "U+A902", "U+A9D2", "U+A9F2", "U+AA52", "U+ABF2", "U+FF12",
         "U+104A2", "U+10D32", "U+11068", "U+110F2", "U+11138", "U+111D2", "U+112F2", "U+11452",
         "U+114D2", "U+11652", "U+116C2", "U+11732", "U+118E2", "U+11952", "U+11C52", "U+11D52",
         "U+11DA2", "U+16A62", "U+16AC2", "U+16B52", "U+1D7D0", "U+1D7DA", "U+1D7E4", "U+1D7EE",
         "U+1D7F8", "U+1E142", "U+1E2F2", "U+1E952", "U+1FBF2" },
       { "3", "U+0663", "U+06F3", "U+07C3", "U+0969", "U+09E9", "U+0A69", "U+0AE9", "U+0B69", "U+0BE9",
         "U+0C69", "U+0CE9", "U+0D69", "U+0DE9", "U+0E53", "U+0ED3", "U+0F23", "U+1043", "U+1093",
         "U+17E3", "U+1813", "U+1949", "U+19D3", "U+1A83", "U+1A93", "U+1B53", "U+1BB3", "U+1C43",
         "U+1C53", "U+A623", "U+A8D3", "U+A903", "U+A9D3", "U+A9F3", "U+AA53", "U+ABF3", "U+FF13",
         "U+104A3", "U+10D33", "U+11069", "U+110F3", "U+11139", "U+111D3", "U+112F3", "U+11453",
         "U+114D3", "U+11653", "U+116C3", "U+11733", "U+118E3", "U+11953", "U+11C53", "U+11D53",
         "U+11DA3", "U+16A63", "U+16AC3", "U+16B53", "U+1D7D1", "U+1D7DB", "U+1D7E5", "U+1D7EF",
         "U+1D7F9", "U+1E143", "U+1E2F3", "U+1E953", "U+1FBF3" },
       { "4", "U+0664", "U+06F4", "U+07C4", "U+096A", "U+09EA", "U+0A6A", "U+0AEA", "U+0B6A", "U+0BEA",
         "U+0C6A", "U+0CEA", "U+0D6A", "U+0DEA", "U+0E54", "U+0ED4", "U+0F24", "U+1044", "U+1094",
         "U+17E4", "U+1814", "U+194A", "U+19D4", "U+1A84", "U+1A94", "U+1B54", "U+1BB4", "U+1C44",
         "U+1C54", "U+A624", "U+A8D4", "U+A904", "U+A9D4", "U+A9F4", "U+AA54", "U+ABF4", "U+FF14",
         "U+104A4", "U+10D34", "U+1106A", "U+110F4", "U+1113A", "U+111D4", "U+112F4", "U+11454",
         "U+114D4", "U+11654", "U+116C4", "U+11734", "U+118E4", "U+11954", "U+11C54", "U+11D54",
         "U+11DA4", "U+16A64", "U+16AC4", "U+16B54", "U+1D7D2", "U+1D7DC", "U+1D7E6", "U+1D7F0",
         "U+1D7FA", "U+1E144", "U+1E2F4", "U+1E954", "U+1FBF4" },
       { "5", "U+0665", "U+06F5", "U+07C5", "U+096B", "U+09EB", "U+0A6B", "U+0AEB", "U+0B6B", "U+0BEB",
         "U+0C6B", "U+0CEB", "U+0D6B", "U+0DEB", "U+0E55", "U+0ED5", "U+0F25", "U+1045", "U+1095",
         "U+17E5", "U+1815", "U+194B", "U+19D5", "U+1A85", "U+1A95", "U+1B55", "U+1BB5", "U+1C45",
         "U+1C55", "U+A625", "U+A8D5", "U+A905", "U+A9D5", "U+A9F5", "U+AA55", "U+ABF5", "U+FF15",
         "U+104A5", "U+10D35", "U+1106B", "U+110F5", "U+1113B", "U+111D5", "U+112F5", "U+11455",
         "U+114D5", "U+11655", "U+116C5", "U+11735", "U+118E5", "U+11955", "U+11C55", "U+11D55",
         "U+11DA5", "U+16A65", "U+16AC5", "U+16B55", "U+1D7D3", "U+1D7DD", "U+1D7E7", "U+1D7F1",
         "U+1D7FB", "U+1E145", "U+1E2F5", "U+1E955", "U+1FBF5" },
       { "6", "U+0666", "U+06F6", "U+07C6", "U+096C", "U+09EC", "U+0A6C", "U+0AEC", "U+0B6C", "U+0BEC",
         "U+0C6C", "U+0CEC", "U+0D6C", "U+0DEC", "U+0E56", "U+0ED6", "U+0F26", "U+1046", "U+1096",
         "U+17E6", "U+1816", "U+194C", "U+19D6", "U+1A86", "U+1A96", "U+1B56", "U+1BB6", "U+1C46",
         "U+1C56", "U+A626", "U+A8D6", "U+A906", "U+A9D6", "U+A9F6", "U+AA56", "U+ABF6", "U+FF16",
         "U+104A6", "U+10D36", "U+1106C", "U+110F6", "U+1113C", "U+111D6", "U+112F6", "U+11456",
         "U+114D6", "U+11656", "U+116C6", "U+11736", "U+118E6", "U+11956", "U+11C56", "U+11D56",
         "U+11DA6", "U+16A66", "U+16AC6", "U+16B56", "U+1D7D4", "U+1D7DE", "U+1D7E8", "U+1D7F2",
         "U+1D7FC", "U+1E146", "U+1E2F6", "U+1E956", "U+1FBF6" },
       { "7", "U+0667", "U+06F7", "U+07C7", "U+096D", "U+09ED", "U+0A6D", "U+0AED", "U+0B6D", "U+0BED",
         "U+0C6D", "U+0CED", "U+0D6D", "U+0DED", "U+0E57", "U+0ED7", "U+0F27", "U+1047", "U+1097",
         "U+17E7", "U+1817", "U+194D", "U+19D7", "U+1A87", "U+1A97", "U+1B57", "U+1BB7", "U+1C47",
         "U+1C57", "U+A627", "U+A8D7", "U+A907", "U+A9D7", "U+A9F7", "U+AA57", "U+ABF7", "U+FF17",
         "U+104A7", "U+10D37", "U+1106D", "U+110F7", "U+1113D", "U+111D7", "U+112F7", "U+11457",
         "U+114D7", "U+11657", "U+116C7", "U+11737", "U+118E7", "U+11957", "U+11C57", "U+11D57",
         "U+11DA7", "U+16A67", "U+16AC7", "U+16B57", "U+1D7D5", "U+1D7DF", "U+1D7E9", "U+1D7F3",
         "U+1D7FD", "U+1E147", "U+1E2F7", "U+1E957", "U+1FBF7" },
       { "8", "U+0668", "U+06F8", "U+07C8", "U+096E", "U+09EE", "U+0A6E", "U+0AEE", "U+0B6E", "U+0BEE",
         "U+0C6E", "U+0CEE", "U+0D6E", "U+0DEE", "U+0E58", "U+0ED8", "U+0F28", "U+1048", "U+1098",
         "U+17E8", "U+1818", "U+194E", "U+19D8", "U+1A88", "U+1A98", "U+1B58", "U+1BB8", "U+1C48",
         "U+1C58", "U+A628", "U+A8D8", "U+A908", "U+A9D8", "U+A9F8", "U+AA58", "U+ABF8", "U+FF18",
         "U+104A8", "U+10D38", "U+1106E", "U+110F8", "U+1113E", "U+111D8", "U+112F8", "U+11458",
         "U+114D8", "U+11658", "U+116C8", "U+11738", "U+118E8", "U+11958", "U+11C58", "U+11D58",
         "U+11DA8", "U+16A68", "U+16AC8", "U+16B58", "U+1D7D6", "U+1D7E0", "U+1D7EA", "U+1D7F4",
         "U+1D7FE", "U+1E148", "U+1E2F8", "U+1E958", "U+1FBF8" },
       { "9", "U+0669", "U+06F9", "U+07C9", "U+096F", "U+09EF", "U+0A6F", "U+0AEF", "U+0B6F", "U+0BEF",
         "U+0C6F", "U+0CEF", "U+0D6F", "U+0DEF", "U+0E59", "U+0ED9", "U+0F29", "U+1049", "U+1099",
         "U+17E9", "U+1819", "U+194F", "U+19D9", "U+1A89", "U+1A99", "U+1B59", "U+1BB9", "U+1C49",
         "U+1C59", "U+A629", "U+A8D9", "U+A909", "U+A9D9", "U+A9F9", "U+AA59", "U+ABF9", "U+FF19",
         "U+104A9", "U+10D39", "U+1106F", "U+110F9", "U+1113F", "U+111D9", "U+112F9", "U+11459",
         "U+114D9", "U+11659", "U+116C9", "U+11739", "U+118E9", "U+11959", "U+11C59", "U+11D59",
         "U+11DA9", "U+16A69", "U+16AC9", "U+16B59", "U+1D7D7", "U+1D7E1", "U+1D7EB", "U+1D7F5",
         "U+1D7FF", "U+1E149", "U+1E2F9", "U+1E959", "U+1FBF9" } >>

DecimalChars == UNION { DecimalsOf[i] : i \in 1..10 }

\* the characters str.isdigit accepts besides the decimal ones: superscripts,
\* subscripts, circled digits and their like
OtherDigitChars ==
    { "²", "³", "¹", "U+1369", "U+136A", "U+136B", "U+136C", "U+136D", "U+136E", "U+136F", "U+1370",
      "U+1371", "U+19DA", "U+2070", "U+2074", "U+2075", "U+2076", "U+2077", "U+2078", "U+2079",
      "U+2080", "U+2081", "U+2082", "U+2083", "U+2084", "U+2085", "U+2086", "U+2087", "U+2088",
      "U+2089", "U+2460", "U+2461", "U+2462", "U+2463", "U+2464", "U+2465", "U+2466", "U+2467",
      "U+2468", "U+2474", "U+2475", "U+2476", "U+2477", "U+2478", "U+2479", "U+247A", "U+247B",
      "U+247C", "U+2488", "U+2489", "U+248A", "U+248B", "U+248C", "U+248D", "U+248E", "U+248F",
      "U+2490", "U+24EA", "U+24F5", "U+24F6", "U+24F7", "U+24F8", "U+24F9", "U+24FA", "U+24FB",
      "U+24FC", "U+24FD", "U+24FF", "U+2776", "U+2777", "U+2778", "U+2779", "U+277A", "U+277B",
      "U+277C", "U+277D", "U+277E", "U+2780", "U+2781", "U+2782", "U+2783", "U+2784", "U+2785",
      "U+2786", "U+2787", "U+2788", "U+278A", "U+278B", "U+278C", "U+278D", "U+278E", "U+278F",
      "U+2790", "U+2791", "U+2792", "U+10A40", "U+10A41", "U+10A42", "U+10A43", "U+10E60", "U+10E61",
      "U+10E62", "U+10E63", "U+10E64", "U+10E65", "U+10E66", "U+10E67", "U+10E68", "U+11052",
      "U+11053", "U+11054", "U+11055", "U+11056", "U+11057", "U+11058", "U+11059", "U+1105A",
      "U+1F100", "U+1F101", "U+1F102", "U+1F103", "U+1F104", "U+1F105", "U+1F106", "U+1F107",
      "U+1F108", "U+1F109", "U+1F10A" }

\* the characters str.isdigit accepts
PyDigitChars == DecimalChars \cup OtherDigitChars

\* repr() of a character that str.isprintable rejects (controls, format
\* characters, separators other than the space): its escape inside a text
\* literal
ReprEscapes ==
    ("U+0000" :> <<"\\", "x", "0", "0">>) @@
    ("U+0001" :> <<"\\", "x", "0", "1">>) @@
    ("U+0002" :> <<"\\", "x", "0", "2">>) @@
    ("U+0003" :> <<"\\", "x", "0", "3">>) @@
    ("U+0004" :> <<"\\", "x", "0", "4">>) @@
    ("U+0005" :> <<"\\", "x", "0", "5">>) @@
    ("U+0006" :> <<"\\", "x", "0", "6">>) @@
    ("U+0007" :> <<"\\", "x", "0", "7">>) @@
    ("U+0008" :> <<"\\", "x", "0", "8">>) @@
    ("\t" :> <<"\\", "t">>) @@
    ("\n" :> <<"\\", "n">>) @@
    ("U+000B" :> <<"\\", "x", "0", "b">>) @@
    ("\f" :> <<"\\", "x", "0", "c">>) @@
    ("\r" :> <<"\\", "r">>) @@
    ("U+000E" :> <<"\\", "x", "0", "e">>) @@
    ("U+000F" :> <<"\\", "x", "0", "f">>) @@
    ("U+0010" :> <<"\\", "x", "1", "0">>) @@
    ("U+0011" :> <<"\\", "x", "1", "1">>) @@
    ("U+0012" :> <<"\\", "x", "1", "2">>) @@
    ("U+0013" :> <<"\\", "x", "1", "3">>) @@
    ("U+0014" :> <<"\\", "x", "1", "4">>) @@
    ("U+0015" :> <<"\\", "x", "1", "5">>) @@
    ("U+0016" :> <<"\\", "x", "1", "6">>) @@
    ("U+0017" :> <<"\\", "x", "1", "7">>) @@
    ("U+0018" :> <<"\\", "x", "1", "8">>) @@
    ("U+0019" :> <<"\\", "x", "1", "9">>) @@
    ("U+001A" :> <<"\\", "x", "1", "a">>) @@
    ("U+001B" :> <<"\\", "x", "1", "b">>) @@
    ("U+001C" :> <<"\\", "x", "1", "c">>) @@
    ("U+001D" :> <<"\\", "x", "1", "d">>) @@
    ("U+001E" :> <<"\\", "x", "1", "e">>) @@
    ("U+001F" :> <<"\\", "x", "1", "f">>) @@
    ("U+007F" :> <<"\\", "x", "7", "f">>) @@
    ("U+0080" :> <<"\\", "x", "8", "0">>) @@
    ("U+0081" :> <<"\\", "x", "8", "1">>) @@
    ("U+0082" :> <<"\\", "x", "8", "2">>) @@
    ("U+0083" :> <<"\\", "x", "8", "3">>) @@
    ("U+0084" :> <<"\\", "x", "8", "4">>) @@
    ("U+0085" :> <<"\\", "x", "8", "5">>) @@
    ("U+0086" :> <<"\\", "x", "8", "6">>) @@
    ("U+0087" :> <<"\\", "x", "8", "7">>) @@
    ("U+0088" :> <<"\\", "x", "8", "8">>) @@
    ("U+0089" :> <<"\\", "x", "8", "9">>) @@
    ("U+008A" :> <<"\\", "x", "8", "a">>) @@
    ("U+008B" :> <<"\\", "x", "8", "b">>) @@
    ("U+008C" :> <<"\\", "x", "8", "c">>) @@
    ("U+008D" :> <<"\\", "x", "8", "d">>) @@
    ("U+008E" :> <<"\\", "x", "8", "e">>) @@
    ("U+008F" :> <<"\\", "x", "8", "f">>) @@
    ("U+0090" :> <<"\\", "x", "9", "0">>) @@
    ("U+0091" :> <<"\\", "x", "9", "1">>) @@
    ("U+0092" :> <<"\\", "x", "9", "2">>) @@
    ("U+0093" :> <<"\\", "x", "9", "3">>) @@
    ("U+0094" :> <<"\\", "x", "9", "4">>) @@
    ("U+0095" :> <<"\\", "x", "9", "5">>) @@
    ("U+0096" :> <<"\\", "x", "9", "6">>) @@
    ("U+0097" :> <<"\\", "x", "9", "7">>) @@
    ("U+0098" :> <<"\\", "x", "9", "8">>) @@
    ("U+0099" :> <<"\\", "x", "9", "9">>) @@
    ("U+009A" :> <<"\\", "x", "9", "a">>) @@
    ("U+009B" :> <<"\\", "x", "9", "b">>) @@
    ("U+009C" :> <<"\\", "x", "9", "c">>) @@
    ("U+009D" :> <<"\\", "x", "9", "d">>) @@
    ("U+009E" :> <<"\\", "x", "9", "e">>) @@
    ("U+009F" :> <<"\\", "x", "9", "f">>) @@
    ("U+00A0" :> <<"\\", "x", "a", "0">>) @@
    ("U+00AD" :> <<"\\", "x", "a", "d">>) @@
    ("U+0600" :> <<"\\", "u", "0", "6", "0", "0">>) @@
    ("U+0601" :> <<"\\", "u", "0", "6", "0", "1">>) @@
    ("U+0602" :> <<"\\", "u", "0", "6", "0", "2">>) @@
    ("U+0603" :> <<"\\", "u", "0", "6", "0", "3">>) @@
    ("U+0604" :> <<"\\", "u", "0", "6", "0", "4">>) @@
    ("U+0605" :> <<"\\", "u", "0", "6", "0", "5">>) @@
    ("U+061C" :> <<"\\", "u", "0", "6", "1", "c">>) @@
    ("U+06DD" :> <<"\\", "u", "0", "6", "d", "d">>) @@
    ("U+070F" :> <<"\\", "u", "0", "7", "0", "f">>) @@
    ("U+0890" :> <<"\\", "u", "0", "8", "9", "0">>) @@
    ("U+0891" :> <<"\\", "u", "0", "8", "9", "1">>) @@
    ("U+08E2" :> <<"\\", "u", "0", "8", "e", "2">>) @@
    ("U+1680" :> <<"\\", "u", "1", "6", "8", "0">>) @@
    ("U+180E" :> <<"\\", "u", "1", "8", "0", "e">>) @@
    ("U+2000" :> <<"\\", "u", "2", "0", "0", "0">>) @@
    ("U+2001" :> <<"\\", "u", "2", "0", "0", "1">>) @@
    ("U+2002" :> <<"\\", "u", "2", "0", "0", "2">>) @@
    ("U+2003" :> <<"\\", "u", "2", "0", "0", "3">>) @@
    ("U+2004" :> <<"\\", "u", "2", "0", "0", "4">>) @@
    ("U+2005" :> <<"\\", "u", "2", "0", "0", "5">>) @@
    ("U+2006" :> <<"\\", "u", "2", "0", "0", "6">>) @@
    ("U+2007" :> <<"\\", "u", "2", "0", "0", "7">>) @@
    ("U+2008" :> <<"\\", "u", "2", "0", "0", "8">>) @@
    ("U+2009" :> <<"\\", "u", "2", "0", "0", "9">>) @@
    ("U+200A" :> <<"\\", "u", "2", "0", "0", "a">>) @@
    ("U+200B" :> <<"\\", "u", "2", "0", "0", "b">>) @@
    ("U+200C" :> <<"\\", "u", "2", "0", "0", "c">>) @@
    ("U+200D" :> <<"\\", "u", "2", "0", "0", "d">>) @@
    ("U+200E" :> <<"\\", "u", "2", "0", "0", "e">>) @@
    ("U+200F" :> <<"\\", "u", "2", "0", "0", "f">>) @@
    ("U+2028" :> <<"\\", "u", "2", "0", "2", "8">>) @@
    ("U+2029" :> <<"\\", "u", "2", "0", "2", "9">>) @@
    ("U+202A" :> <<"\\", "u", "2", "0", "2", "a">>) @@
    ("U+202B" :> <<"\\", "u", "2", "0", "2", "b">>) @@
    ("U+202C" :> <<"\\", "u", "2", "0", "2", "c">>) @@
    ("U+202D" :> <<"\\", "u", "2", "0", "2", "d">>) @@
    ("U+202E" :> <<"\\", "u", "2", "0", "2", "e">>) @@
    ("U+202F" :> <<"\\", "u", "2", "0", "2", "f">>) @@
    ("U+205F" :> <<"\\", "u", "2", "0", "5", "f">>) @@
    ("U+2060" :> <<"\\", "u", "2", "0", "6", "0">>) @@
    ("U+2061" :> <<"\\", "u", "2", "0", "6", "1">>) @@
    ("U+2062" :> <<"\\", "u", "2", "0", "6", "2">>) @@
    ("U+2063" :> <<"\\", "u", "2", "0", "6", "3">>) @@
    ("U+2064" :> <<"\\", "u", "2", "0", "6", "4">>) @@
    ("U+2066" :> <<"\\", "u", "2", "0", "6", "6">>) @@
    ("U+2067" :> <<"\\", "u", "2", "0", "6", "7">>) @@
    ("U+2068" :> <<"\\", "u", "2", "0", "6", "8">>) @@
    ("U+2069" :> <<"\\", "u", "2", "0", "6", "9">>) @@
    ("U+206A" :> <<"\\", "u", "2", "0", "6", "a">>) @@
    ("U+206B" :> <<"\\", "u", "2", "0", "6", "b">>) @@
    ("U+206C" :> <<"\\", "u", "2", "0", "6", "c">>) @@
    ("U+206D" :> <<"\\", "u", "2", "0", "6", "d">>) @@
    ("U+206E" :> <<"\\", "u", "2", "0", "6", "e">>) @@
    ("U+206F" :> <<"\\", "u", "2", "0", "6", "f">>) @@
    ("U+3000" :> <<"\\", "u", "3", "0", "0", "0">>) @@
    ("U+FEFF" :> <<"\\", "u", "f", "e", "f", "f">>) @@
    ("U+FFF9" :> <<"\\", "u", "f", "f", "f", "9">>) @@
    ("U+FFFA" :> <<"\\", "u", "f", "f", "f", "a">>) @@
    ("U+FFFB" :> <<"\\", "u", "f", "f", "f", "b">>) @@
    ("U+110BD" :> <<"\\", "U", "0", "0", "0", "1", "1", "0", "b", "d">>) @@
    ("U+110CD" :> <<"\\", "U", "0", "0", "0", "1", "1", "0", "c", "d">>) @@
    ("U+13430" :> <<"\\", "U", "0", "0", "0", "1", "3", "4", "3", "0">>) @@
    ("U+13431" :> <<"\\", "U", "0", "0", "0", "1", "3", "4", "3", "1">>) @@
    ("U+13432" :> <<"\\", "U", "0", "0", "0", "1", "3", "4", "3", "2">>) @@
    ("U+13433" :> <<"\\", "U", "0", "0", "0", "1", "3", "4", "3", "3">>) @@
    ("U+13434" :> <<"\\", "U", "0", "0", "0", "1", "3", "4", "3", "4">>) @@
    ("U+13435" :> <<"\\", "U", "0", "0", "0", "1", "3", "4", "3", "5">>) @@
    ("U+13436" :> <<"\\", "U", "0", "0", "0", "1", "3", "4", "3", "6">>) @@
    ("U+13437" :> <<"\\", "U", "0", "0", "0", "1", "3", "4", "3", "7">>) @@
    ("U+13438" :> <<"\\", "U", "0", "0", "0", "1", "3", "4", "3", "8">>) @@
    ("U+1BCA0" :> <<"\\", "U", "0", "0", "0", "1", "b", "c", "a", "0">>) @@
    ("U+1BCA1" :> <<"\\", "U", "0", "0", "0", "1", "b", "c", "a", "1">>) @@
    ("U+1BCA2" :> <<"\\", "U", "0", "0", "0", "1", "b", "c", "a", "2">>) @@
    ("U+1BCA3" :> <<"\\", "U", "0", "0", "0", "1", "b", "c", "a", "3">>) @@
    ("U+1D173" :> <<"\\", "U", "0", "0", "0", "1", "d", "1", "7", "3">>) @@
    ("U+1D174" :> <<"\\", "U", "0", "0", "0", "1", "d", "1", "7", "4">>) @@
    ("U+1D175" :> <<"\\", "U", "0", "0", "0", "1", "d", "1", "7", "5">>) @@
    ("U+1D176" :> <<"\\", "U", "0", "0", "0", "1", "d", "1", "7", "6">>) @@
    ("U+1D177" :> <<"\\", "U", "0", "0", "0", "1", "d", "1", "7", "7">>) @@
    ("U+1D178" :> <<"\\", "U", "0", "0", "0", "1", "d", "1", "7", "8">>) @@
    ("U+1D179" :> <<"\\", "U", "0", "0", "0", "1", "d", "1", "7", "9">>) @@
    ("U+1D17A" :> <<"\\", "U", "0", "0", "0", "1", "d", "1", "7", "a">>) @@
    ("U+E0001" :> <<"\\", "U", "0", "0", "0", "e", "0", "0", "0", "1">>) @@
    ("U+E0020" :> <<"\\", "U", "0", "0", "0", "e", "0", "0", "2", "0">>) @@
    ("U+E0021" :> <<"\\", "U", "0", "0", "0", "e", "0", "0", "2", "1">>) @@
    ("U+E0022" :> <<"\\", "U", "0", "0", "0", "e", "0", "0", "2", "2">>) @@
    ("U+E0023" :> <<"\\", "U", "0", "0", "0", "e", "0", "0", "2", "3">>) @@
    ("U+E0024" :> <<"\\", "U", "0", "0", "0", "e", "0", "0", "2", "4">>) @@
    ("U+E0025" :> <<"\\", "U", "0", "0", "0", "e", "0", "0", "2", "5">>) @@
    ("U+E0026" :> <<"\\", "U", "0", "0", "0", "e", "0", "0", "2", "6">>) @@
    ("U+E0027" :> <<"\\", "U", "0", "0", "0", "e", "0", "0", "2", "7">>) @@
    ("U+E0028" :> <<"\\", "U", "0", "0", "0", "e", "0", "0", "2", "8">>) @@
    ("U+E0029" :> <<"\\", "U", "0", "0", "0", "e", "0", "0", "2", "9">>) @@
    ("U+E002A" :> <<"\\", "U", "0", "0", "0", "e", "0", "0", "2", "a">>) @@
    ("U+E002B" :> <<"\\", "U", "0", "0", "0", "e", "0", "0", "2", "b">>) @@
    ("U+E002C" :> <<"\\", "U", "0", "0", "0", "e", "0", "0", "2", "c">>) @@
    ("U+E002D" :> <<"\\", "U", "0", "0", "0", "e", "0", "0", "2", "d">>) @@
    ("U+E002E" :> <<"\\", "U", "0", "0", "0", "e", "0", "0", "2", "e">>) @@
    ("U+E002F" :> <<"\\", "U", "0", "0", "0", "e", "0", "0", "2", "f">>) @@
    ("U+E0030" :> <<"\\", "U", "0", "0", "0", "e", "0", "0", "3", "0">>) @@
    ("U+E0031" :> <<"\\", "U", "0", "0", "0", "e", "0", "0", "3", "1">>) @@
    ("U+E0032" :> <<"\\", "U", "0", "0", "0", "e", "0", "0", "3", "2">>) @@
    ("U+E0033" :> <<"\\", "U", "0", "0", "0", "e", "0", "0", "3", "3">>) @@
    ("U+E0034" :> <<"\\", "U", "0", "0", "0", "e", "0", "0", "3", "4">>) @@
    ("U+E0035" :> <<"\\", "U", "0", "0", "0", "e", "0", "0", "3", "5">>) @@
    ("U+E0036" :> <<"\\", "U", "0", "0", "0", "e", "0", "0", "3", "6">>) @@
    ("U+E0037" :> <<"\\", "U", "0", "0", "0", "e", "0", "0", "3", "7">>) @@
    ("U+E0038" :> <<"\\", "U", "0", "0", "0", "e", "0", "0", "3", "8">>) @@
    ("U+E0039" :> <<"\\", "U", "0", "0", "0", "e", "0", "0", "3", "9">>) @@
    ("U+E003A" :> <<"\\", "U", "0", "0", "0", "e", "0", "0", "3", "a">>) @@
    ("U+E003B" :> <<"\\", "U", "0", "0", "0", "e", "0", "0", "3", "b">>) @@
    ("U+E003C" :> <<"\\", "U", "0", "0", "0", "e", "0", "0", "3", "c">>) @@
    ("U+E003D" :> <<"\\", "U", "0", "0", "0", "e", "0", "0", "3", "d">>) @@
    ("U+E003E" :> <<"\\", "U", "0", "0", "0", "e", "0", "0", "3", "e">>) @@
    ("U+E003F" :> <<"\\", "U", "0", "0", "0", "e", "0", "0", "3", "f">>) @@
    ("U+E0040" :> <<"\\", "U", "0", "0", "0", "e", "0", "0", "4", "0">>) @@
    ("U+E0041" :> <<"\\", "U", "0", "0", "0", "e", "0", "0", "4", "1">>) @@
    ("U+E0042" :> <<"\\", "U", "0", "0", "0", "e", "0", "0", "4", "2">>) @@
    ("U+E0043" :> <<"\\", "U", "0", "0", "0", "e", "0", "0", "4", "3">>) @@
    ("U+E0044" :> <<"\\", "U", "0", "0", "0", "e", "0", "0", "4", "4">>) @@
    ("U+E0045" :> <<"\\", "U", "0", "0", "0", "e", "0", "0", "4", "5">>) @@
    ("U+E0046" :> <<"\\", "U", "0", "0", "0", "e", "0", "0", "4", "6">>) @@
    ("U+E0047" :> <<"\\", "U", "0", "0", "0", "e", "0", "0", "4", "7">>) @@
    ("U+E0048" :> <<"\\", "U", "0", "0", "0", "e", "0", "0", "4", "8">>) @@
    ("U+E0049" :> <<"\\", "U", "0", "0", "0", "e", "0", "0", "4", "9">>) @@
    ("U+E004A" :> <<"\\", "U", "0", "0", "0", "e", "0", "0", "4", "a">>) @@
    ("U+E004B" :> <<"\\", "U", "0", "0", "0", "e", "0", "0", "4", "b">>) @@
    ("U+E004C" :> <<"\\", "U", "0", "0", "0", "e", "0", "0", "4", "c">>) @@
    ("U+E004D" :> <<"\\", "U", "0", "0", "0", "e", "0", "0", "4", "d">>) @@
    ("U+E004E" :> <<"\\", "U", "0", "0", "0", "e", "0", "0", "4", "e">>) @@
    ("U+E004F" :> <<"\\", "U", "0", "0", "0", "e", "0", "0", "4", "f">>) @@
    ("U+E0050" :> <<"\\", "U", "0", "0", "0", "e", "0", "0", "5", "0">>) @@
    ("U+E0051" :> <<"\\", "U", "0", "0", "0", "e", "0", "0", "5", "1">>) @@
    ("U+E0052" :> <<"\\", "U", "0", "0", "0", "e", "0", "0", "5", "2">>) @@
    ("U+E0053" :> <<"\\", "U", "0", "0", "0", "e", "0", "0", "5", "3">>) @@
    ("U+E0054" :> <<"\\", "U", "0", "0", "0", "e", "0", "0", "5", "4">>) @@
    ("U+E0055" :> <<"\\", "U", "0", "0", "0", "e", "0", "0", "5", "5">>) @@
    ("U+E0056" :> <<"\\", "U", "0", "0", "0", "e", "0", "0", "5", "6">>) @@
    ("U+E0057" :> <<"\\", "U", "0", "0", "0", "e", "0", "0", "5", "7">>) @@
    ("U+E0058" :> <<"\\", "U", "0", "0", "0", "e", "0", "0", "5", "8">>) @@
    ("U+E0059" :> <<"\\", "U", "0", "0", "0", "e", "0", "0", "5", "9">>) @@
    ("U+E005A" :> <<"\\", "U", "0", "0", "0", "e", "0", "0", "5", "a">>) @@
    ("U+E005B" :> <<"\\", "U", "0", "0", "0", "e", "0", "0", "5", "b">>) @@
    ("U+E005C" :> <<"\\", "U", "0", "0", "0", "e", "0", "0", "5", "c">>) @@
    ("U+E005D" :> <<"\\", "U", "0", "0", "0", "e", "0", "0", "5", "d">>) @@
    ("U+E005E" :> <<"\\", "U", "0", "0", "0", "e", "0", "0", "5", "e">>) @@
    ("U+E005F" :> <<"\\", "U", "0", "0", "0", "e", "0", "0", "5", "f">>) @@
    ("U+E0060" :> <<"\\", "U", "0", "0", "0", "e", "0", "0", "6", "0">>) @@
    ("U+E0061" :> <<"\\", "U", "0", "0", "0", "e", "0", "0", "6", "1">>) @@
    ("U+E0062" :> <<"\\", "U", "0", "0", "0", "e", "0", "0", "6", "2">>) @@
    ("U+E0063" :> <<"\\", "U", "0", "0", "0", "e", "0", "0", "6", "3">>) @@
    ("U+E0064" :> <<"\\", "U", "0", "0", "0", "e", "0", "0", "6", "4">>) @@
    ("U+E0065" :> <<"\\", "U", "0", "0", "0", "e", "0", "0", "6", "5">>) @@
    ("U+E0066" :> <<"\\", "U", "0", "0", "0", "e", "0", "0", "6", "6">>) @@
    ("U+E0067" :> <<"\\", "U", "0", "0", "0", "e", "0", "0", "6", "7">>) @@
    ("U+E0068" :> <<"\\", "U", "0", "0", "0", "e", "0", "0", "6", "8">>) @@
    ("U+E0069" :> <<"\\", "U", "0", "0", "0", "e", "0", "0", "6", "9">>) @@
    ("U+E006A" :> <<"\\", "U", "0", "0", "0", "e", "0", "0", "6", "a">>) @@
    ("U+E006B" :> <<"\\", "U", "0", "0", "0", "e", "0", "0", "6", "b">>) @@
    ("U+E006C" :> <<"\\", "U", "0", "0", "0", "e", "0", "0", "6", "c">>) @@
    ("U+E006D" :> <<"\\", "U", "0", "0", "0", "e", "0", "0", "6", "d">>) @@
    ("U+E006E" :> <<"\\", "U", "0", "0", "0", "e", "0", "0", "6", "e">>) @@
    ("U+E006F" :> <<"\\", "U", "0", "0", "0", "e", "0", "0", "6", "f">>) @@
    ("U+E0070" :> <<"\\", "U", "0", "0", "0", "e", "0", "0", "7", "0">>) @@
    ("U+E0071" :> <<"\\", "U", "0", "0", "0", "e", "0", "0", "7", "1">>) @@
    ("U+E0072" :> <<"\\", "U", "0", "0", "0", "e", "0", "0", "7", "2">>) @@
    ("U+E0073" :> <<"\\", "U", "0", "0", "0", "e", "0", "0", "7", "3">>) @@
    ("U+E0074" :> <<"\\", "U", "0", "0", "0", "e", "0", "0", "7", "4">>) @@
    ("U+E0075" :> <<"\\", "U", "0", "0", "0", "e", "0", "0", "7", "5">>) @@
    ("U+E0076" :> <<"\\", "U", "0", "0", "0", "e", "0", "0", "7", "6">>) @@
    ("U+E0077" :> <<"\\", "U", "0", "0", "0", "e", "0", "0", "7", "7">>) @@
    ("U+E0078" :> <<"\\", "U", "0", "0", "0", "e", "0", "0", "7", "8">>) @@
    ("U+E0079" :> <<"\\", "U", "0", "0", "0", "e", "0", "0", "7", "9">>) @@
    ("U+E007A" :> <<"\\", "U", "0", "0", "0", "e", "0", "0", "7", "a">>) @@
    ("U+E007B" :> <<"\\", "U", "0", "0", "0", "e", "0", "0", "7", "b">>) @@
    ("U+E007C" :> <<"\\", "U", "0", "0", "0", "e", "0", "0", "7", "c">>) @@
    ("U+E007D" :> <<"\\", "U", "0", "0", "0", "e", "0", "0", "7", "d">>) @@
    ("U+E007E" :> <<"\\", "U", "0", "0", "0", "e", "0", "0", "7", "e">>) @@
    ("U+E007F" :> <<"\\", "U", "0", "0", "0", "e", "0", "0", "7", "f">>)

\* str.lower() of the characters whose lower-case form holds an ASCII letter
LowerForms ==
    ("A" :> <<"a">>) @@ ("B" :> <<"b">>) @@ ("C" :> <<"c">>) @@ ("D" :> <<"d">>) @@ ("E" :> <<"e">>) @@
    ("F" :> <<"f">>) @@ ("G" :> <<"g">>) @@ ("H" :> <<"h">>) @@ ("I" :> <<"i">>) @@ ("J" :> <<"j">>) @@
    ("K" :> <<"k">>) @@ ("L" :> <<"l">>) @@ ("M" :> <<"m">>) @@ ("N" :> <<"n">>) @@ ("O" :> <<"o">>) @@
    ("P" :> <<"p">>) @@ ("Q" :> <<"q">>) @@ ("R" :> <<"r">>) @@ ("S" :> <<"s">>) @@ ("T" :> <<"t">>) @@
    ("U" :> <<"u">>) @@ ("V" :> <<"v">>) @@ ("W" :> <<"w">>) @@ ("X" :> <<"x">>) @@ ("Y" :> <<"y">>) @@
    ("Z" :> <<"z">>) @@ ("U+0130" :> <<"i", "U+0307">>) @@ ("U+212A" :> <<"k">>)

(***************************************************************************)
(* JSON substructure search                                                *)
(***************************************************************************)

\* bound of the search model: the number of distinct identifiers
NumIds == 2

JStr(chars) == <<"str", chars>>
JInt(digits) == <<"int", digits>>
JNull == <<"null", <<>>>>
JMap(kv) == <<"map", kv>>
JList(items) == <<"list", items>>

IsMap(v) == v[1] = "map"
IsList(v) == v[1] = "list"

\* key in cur
HasKey(cur, key) == \E i \in 1..Len(cur[2]) : cur[2][i][1] = key

\* cur.get(key): None when the key is absent
Get(cur, key) ==
    IF HasKey(cur, key)
    THEN cur[2][CHOOSE i \in 1..Len(cur[2]) : cur[2][i][1] = key][2]
    ELSE NoMatch

\* list(cur.values())
Values(cur) == [i \in 1..Len(cur[2]) |-> cur[2][i][2]]

\* the quote repr() puts around a text: " when the text holds ' and no ", else '
ReprQuote(s) ==
    IF (\E i \in 1..Len(s) : s[i] = "'") /\ ~(\E i \in 1..Len(s) : s[i] = "\"") THEN "\"" ELSE "'"

\* a character of a text inside the quotes q: the backslash and the quote
\* are escaped, a character that is not printable is written as its escape
ReprChar(c, q) ==
    IF c = "\\" \/ c = q THEN <<"\\", c>> ELSE (ReprEscapes @@ (c :> <<c>>))[c]

\* the characters of a text inside its quotes
ReprChars(s, q) == Loop(LAMBDA out, i : out \o ReprChar(s[i], q), <<>>, 1, Len(s))

\* the texts of items joined with ", "
RECURSIVE JoinItems(_)
JoinItems(items) ==
    IF items = <<>> THEN <<>>
    ELSE IF Len(items) = 1 THEN items[1]
    ELSE items[1] \o <<",", " ">> \o JoinItems(Tail(items))

\* repr(s) of a text: its characters, escaped, in quotes
ReprText(s) == <<ReprQuote(s)>> \o ReprChars(s, ReprQuote(s)) \o <<ReprQuote(s)>>

\* repr(v): a text in quotes, a number by its digits, None, a mapping as
\* {key: value, ...} with each key, a text, by its repr, and a list as
\* [value, ...]
RECURSIVE PyRepr(_)
PyRepr(v) ==
    IF v[1] = "str" THEN ReprText(v[2])
    ELSE IF v[1] = "int" THEN v[2]
    ELSE IF v[1] \in {"null", "None"} THEN <<"N", "o", "n", "e">>
    ELSE IF v[1] = "map"
         THEN <<"{">> \o JoinItems([i \in 1..Len(v[2]) |->
                                      PyRepr(JStr(v[2][i][1])) \o <<":", " ">> \o PyRepr(v[2][i][2])])
                     \o <<"}">>
    ELSE <<"[">> \o JoinItems([i \in 1..Len(v[2]) |-> PyRepr(v[2][i])]) \o <<"]">>

\* str(v): a text is itself, anything else prints as repr(v)
PyStr(v) == IF v[1] = "str" THEN v[2] ELSE PyRepr(v)

\* "id" in cur and ("images" in cur or "grid_title" in cur or "title" in cur)
PinLike(cur) ==
    HasKey(cur, Chars("id")) /\ (HasKey(cur, Chars("images")) \/ HasKey(cur, Chars("grid_title")) \/ HasKey(cur, Chars("title")))

\* the hint test with the identifier compared as it is, without str()
IdMatchesRaw(cur, hint) == hint # <<>> /\ Get(cur, Chars("id")) = JStr(hint)

\* pin_id_hint and str(cur.get("id")) == str(pin_id_hint)
IdMatches(cur, hint) == hint # <<>> /\ PyStr(Get(cur, Chars("id"))) = hint

\* what only a mapping pushes on the stack
PushedMapOnly(cur) == IF IsMap(cur) THEN Values(cur) ELSE <<>>

\* what the loop pushes on the stack for cur: the values of a mapping, the
\* elements of a list, nothing for a scalar
Pushed(cur) ==
    IF IsMap(cur) THEN Values(cur)
    ELSE IF IsList(cur) THEN cur[2]
    ELSE <<>>

\* the while loop over the stack; stack.pop() takes the last element
RECURSIVE FindLoop(_, _, _)
FindLoop(stack, fallback, hint) ==
    IF stack = <<>> THEN fallback
    ELSE LET cur == stack[Len(stack)]
             rest == SubSeq(stack, 1, Len(stack) - 1)
         IN  IF IsMap(cur) /\ PinLike(cur) /\ IdMatches(cur, hint) THEN cur
             ELSE FindLoop(rest \o Pushed(cur),
                           IF IsMap(cur) /\ PinLike(cur) /\ fallback = NoMatch THEN cur ELSE fallback,
                           hint)

find_first_pin_like_dict(obj, pin_id_hint) == FindLoop(<<obj>>, NoMatch, pin_id_hint)

\* the identifiers of the inputs, as text and as numbers
IdTexts == { <<ToString(k)>> : k \in 1..NumIds }
IdVals == { JStr(t) : t \in IdTexts } \cup { JInt(t) : t \in IdTexts }

MarkerKeys == {Chars("title"), Chars("images"), Chars("grid_title")}

\* the JSON inputs of the search, three levels of containers deep
JsonLeaves ==
    { JStr(<<"x">>), JNull, JMap(<<>>), JList(<<>>), JMap(<< <<Chars("title"), JStr(<<"x">>)>> >>) }
    \cup { JMap(<< <<Chars("id"), i>> >>) : i \in IdVals }
    \cup { JMap(<< <<Chars("id"), i>>, <<k, JStr(<<"x">>)>> >>) : i \in IdVals, k \in MarkerKeys }

JsonInner ==
    { JList(l) : l \in SeqsUpTo(JsonLeaves, 2) }
    \cup { JMap(<< <<<<"a">>, v>> >>) : v \in JsonLeaves }
    \cup { JMap(<< <<<<"a">>, v>>, <<<<"b">>, w>> >>) : v \in JsonLeaves, w \in JsonLeaves }
    \cup { JMap(<< <<Chars("id"), i>>, <<Chars("title"), JStr(<<"x">>)>>, <<<<"a">>, v>> >>) : i \in IdVals, v \in JsonLeaves }

JsonOuter ==
    { JList(<<v>>) : v \in JsonInner }
    \cup { JMap(<< <<<<"a">>, v>> >>) : v \in JsonInner }
    \cup { JMap(<< <<Chars("id"), i>>, <<Chars("images"), JNull>>, <<<<"a">>, v>> >>) : i \in IdVals, v \in JsonInner }
    \cup { JMap(<< <<<<"a">>, v>>, <<Chars("title"), JNull>>, <<Chars("id"), i>> >>) : i \in IdVals, v \in JsonInner }

JsonInputs == JsonLeaves \cup JsonInner \cup JsonOuter

\* the hints: none, every identifier of the inputs, one that no input carries
Hints == { <<>>, <<"9">> } \cup IdTexts

InitFind ==
    /\ f_obj \in JsonInputs
    /\ f_hint \in Hints
    /\ f_res = NoMatch
    /\ fpc = "call"

FindFirst ==
    /\ fpc = "call"
    /\ f_res' = find_first_pin_like_dict(f_obj, f_hint)
    /\ fpc' = "done"
    /\ UNCHANGED <<f_obj, f_hint>>
    /\ UNCHANGED notFind

NextFind == FindFirst

\* a search on its own
InitSpecFind == InitFind /\ IdleCrawl /\ IdleRun /\ IdleNum /\ IdleDetail /\ IdleMerge /\ IdleHunt /\ IdleScripts

SpecFind == InitSpecFind /\ [][NextFind]_vars

(***************************************************************************)
(* Claims about the JSON substructure search                               *)
(***************************************************************************)

\* every value nested in v, v included
RECURSIVE SubValues(_)
SubValues(v) ==
    IF v[1] = "map" THEN {v} \cup UNION { SubValues(v[2][i][2]) : i \in 1..Len(v[2]) }
    ELSE IF v[1] = "list" THEN {v} \cup UNION { SubValues(v[2][i]) : i \in 1..Len(v[2]) }
    ELSE {v}

EntityLike(v) ==
    /\ v[1] = "map"
    /\ \E i \in 1..Len(v[2]) : v[2][i][1] = Chars("id")
    /\ \E i \in 1..Len(v[2]) : v[2][i][1] \in MarkerKeys

\* the identifier of an entity-like mapping as text
IdText(v) == LET i == CHOOSE j \in 1..Len(v[2]) : v[2][j][1] = Chars("id") IN v[2][i][2][2]

HintedMatches(v, hint) == { m \in SubValues(v) : EntityLike(m) /\ IdText(m) = hint }

\* C7: with a non-empty hint, if the structure holds an entity-like mapping
\* whose identifier string-equals the hint, the search returns such a
\* mapping, wherever it is nested and whatever is met before it; an
\* entity-like mapping with another identifier is returned only when none
\* matches the hint.
C7_HintTakesPrecedence ==
    (fpc = "done" /\ f_hint # <<>>) =>
        /\ HintedMatches(f_obj, f_hint) # {} => f_res \in HintedMatches(f_obj, f_hint)
        /\ (f_res # NoMatch /\ f_res \notin HintedMatches(f_obj, f_hint)) =>
               (HintedMatches(f_obj, f_hint) = {} /\ EntityLike(f_res) /\ f_res \in SubValues(f_obj))

\* the match is nested two containers deep, numeric, and the structure's
\* outer mapping is entity-like with another identifier
C7_Witness ==
    /\ fpc = "done"
    /\ f_hint = <<"2">>
    /\ f_res = JMap(<< <<Chars("id"), JInt(<<"2">>)>>, <<Chars("title"), JStr(<<"x">>)>> >>)
    /\ f_obj[1] = "map"
    /\ EntityLike(f_obj)
    /\ IdText(f_obj) = <<"1">>
    /\ f_res \notin { f_obj[2][i][2] : i \in 1..Len(f_obj[2]) }

\* C8: the search returns a mapping exactly when some mapping at any depth
\* is entity-like, and that mapping is an entity-like one of the structure;
\* otherwise it returns no match.
C8_Exhaustive ==
    fpc = "done" =>
        /\ f_res # NoMatch <=> (\E m \in SubValues(f_obj) : EntityLike(m))
        /\ f_res # NoMatch => (EntityLike(f_res) /\ f_res \in SubValues(f_obj))

\* the only entity-like mapping sits in a list inside the structure
C8_Witness ==
    /\ fpc = "done"
    /\ f_res # NoMatch
    /\ ~EntityLike(f_obj)
    /\ \E i \in 1..Len(f_obj[2]) :
         LET c == IF f_obj[1] = "map" THEN f_obj[2][i][2] ELSE f_obj[2][i]
         IN  c[1] = "list" /\ f_res \in SeqToSet(c[2])

(***************************************************************************)
(* Compact-number normaliser                                               *)
(***************************************************************************)

\* bound of the normaliser model: the length of the input text
MaxTextLen == 4

DigitChars == {"0", "1", "2", "3", "4", "5", "6", "7", "8", "9"}
DigitSeq == <<"0", "1", "2", "3", "4", "5", "6", "7", "8", "9">>
\* the value of a decimal character, as float() reads it
DigitVal(c) == (CHOOSE i \in 1..10 : c \in DecimalsOf[i]) - 1

\* [\d,.]
IsNumChar(c) == c \in DecimalChars \/ c \in {",", "."}
\* \s
IsSpace(c) == c \in WhitespaceChars
\* [kKmMbB]
IsSuffix(c) == c \in {"k", "K", "m", "M", "b", "B"}

\* ---- natural numbers of any size: limbs in base 2^15, least significant ----
\* ---- first, the last limb not 0; <<>> is zero                          ----

LimbBits == 15
RECURSIVE Pow2(_)
Pow2(n) == IF n = 0 THEN 1 ELSE 2 * Pow2(n - 1)
LimbBase == Pow2(LimbBits)

\* the digits are taken ChunkDigits at a time, ChunkBase being 10^ChunkDigits
ChunkDigits == 4
ChunkBase == 10000

RECURSIVE Pow10(_)
Pow10(n) == IF n = 0 THEN 1 ELSE 10 * Pow10(n - 1)

RECURSIVE BigOfSmall(_)
BigOfSmall(n) == IF n = 0 THEN <<>> ELSE <<n % LimbBase>> \o BigOfSmall(n \div LimbBase)

\* the limbs a sum or a product has written, with the last carry on top
Carried(end) == end.limbs \o BigOfSmall(end.c)

\* a * k + c for 1 <= k < 2^15 and c < 2^15
BigMulAdd(a, k, c) ==
    LET Step(s, i) == LET t == a[i] * k + s.c
                      IN  [limbs |-> Append(s.limbs, t % LimbBase), c |-> t \div LimbBase]
    IN  Of(Carried, Loop(Step, [limbs |-> <<>>, c |-> c], 1, Len(a)))

\* a + b + c for a carry c of 0 or 1
BigAdd(a, b, c) ==
    LET At(x, i) == IF i <= Len(x) THEN x[i] ELSE 0
        Step(s, i) == LET t == At(a, i) + At(b, i) + s.c
                      IN  [limbs |-> Append(s.limbs, t % LimbBase), c |-> t \div LimbBase]
    IN  Of(Carried, Loop(Step, [limbs |-> <<>>, c |-> c], 1, Max(Len(a), Len(b))))

\* a * n for a whole number n >= 0
RECURSIVE BigTimes(_, _)
BigTimes(a, n) ==
    IF n = 0 \/ a = <<>> THEN <<>>
    ELSE IF n < 1000 THEN BigMulAdd(a, n, 0)
    ELSE LET Sum(high) ==
                 LET Add(shifted) == Of(LAMBDA low : BigAdd(low, shifted, 0), BigTimes(a, n % 1000))
                 IN  Of(Add, BigMulAdd(high, 1000, 0))
         IN  Of(Sum, BigTimes(a, n \div 1000))

\* quotient and remainder of a by d, 1 <= d < 2^16: the limbs are divided
\* from the most significant one down
BigDivMod(a, d) ==
    LET Step(s, i) == LET t == s.r * LimbBase + a[Len(a) + 1 - i]
                      IN  [q |-> <<t \div d>> \o s.q, r |-> t % d]
        Trimmed(end) ==
            LET n == Len(end.q)
            IN  [q |-> IF n > 0 /\ end.q[n] = 0 THEN SubSeq(end.q, 1, n - 1) ELSE end.q,
                 r |-> end.r]
    IN  Of(Trimmed, Loop(Step, [q |-> <<>>, r |-> 0], 1, Len(a)))

\* a divided by 10^f: the quotient, and whether anything was left over
BigDivPow10(a, f) ==
    LET Step(s, i) == Of(LAMBDA dm : [q |-> dm.q, inexact |-> s.inexact \/ dm.r # 0],
                         BigDivMod(s.q, ChunkBase))
        Last(whole) == Of(LAMBDA dm : [q |-> dm.q, inexact |-> whole.inexact \/ dm.r # 0],
                          BigDivMod(whole.q, Pow10(f % ChunkDigits)))
    IN  Of(Last, Loop(Step, [q |-> a, inexact |-> FALSE], 1, f \div ChunkDigits))

RECURSIVE SmallBitLen(_)
SmallBitLen(n) == IF n = 0 THEN 0 ELSE 1 + SmallBitLen(n \div 2)

BigBitLen(a) == IF a = <<>> THEN 0 ELSE LimbBits * (Len(a) - 1) + SmallBitLen(a[Len(a)])

\* the i-th bit of a, the lowest being bit 1
BigBit(a, i) == (a[((i - 1) \div LimbBits) + 1] \div Pow2((i - 1) % LimbBits)) % 2

\* one of the k lowest bits of a is set
BigLowBits(a, k) ==
    \/ \E j \in 1..Min(k \div LimbBits, Len(a)) : a[j] # 0
    \/ k > 0 /\ (k \div LimbBits) + 1 <= Len(a) /\ a[(k \div LimbBits) + 1] % Pow2(k % LimbBits) # 0

BigShiftLeft(a, k) ==
    IF a = <<>> THEN <<>>
    ELSE IF k % LimbBits = 0 THEN Copies(0, k \div LimbBits) \o a
    ELSE Of(LAMBDA whole : BigMulAdd(whole, Pow2(k % LimbBits), 0), Copies(0, k \div LimbBits) \o a)

BigShiftRight(a, k) ==
    IF k >= BigBitLen(a) THEN <<>>
    ELSE Of(LAMBDA high : BigDivMod(high, Pow2(k % LimbBits)).q,
            SubSeq(a, (k \div LimbBits) + 1, Len(a)))

\* the whole number written by at most ChunkDigits digits
RECURSIVE SmallOfDigits(_)
SmallOfDigits(digits) ==
    IF digits = <<>> THEN 0
    ELSE 10 * SmallOfDigits(SubSeq(digits, 1, Len(digits) - 1)) + DigitVal(digits[Len(digits)])

\* the whole number written by the digits
BigOfDigits(digits) ==
    LET first == Len(digits) % ChunkDigits
        Step(s, i) ==
            BigMulAdd(s, ChunkBase,
                      SmallOfDigits(SubSeq(digits, first + ChunkDigits * (i - 1) + 1,
                                           first + ChunkDigits * i)))
    IN  Loop(Step, BigOfSmall(SmallOfDigits(SubSeq(digits, 1, first))),
             1, Len(digits) \div ChunkDigits)

\* str(n) of n < ChunkBase, and the same with leading zeros to ChunkDigits digits
RECURSIVE SmallDigits(_)
SmallDigits(n) == IF n = 0 THEN <<>> ELSE Append(SmallDigits(n \div 10), DigitSeq[(n % 10) + 1])
PaddedDigits(n) == LET d == SmallDigits(n) IN Copies("0", ChunkDigits - Len(d)) \o d

\* str(n) of a natural number: ChunkDigits digits at a time from the right,
\* each division taking more than ChunkBits bits off
ChunkBits == 13
BigDigits(a) ==
    LET Written(s, dm) ==
            [q |-> dm.q,
             text |-> (IF dm.q = <<>> THEN SmallDigits(dm.r) ELSE PaddedDigits(dm.r)) \o s.text]
        Step(s, i) ==
            IF s.q = <<>> THEN s
            ELSE Of(LAMBDA dm : Written(s, dm), BigDivMod(s.q, ChunkBase))
    IN  Loop(Step, [q |-> a, text |-> <<>>], 1, (BigBitLen(a) \div ChunkBits) + 1).text

BigToText(a) == IF a = <<>> THEN <<"0">> ELSE BigDigits(a)

\* ---- binary64: a double is [m, e], the value m * 2^e with m of at most ----
\* ---- 53 bits                                                          ----

MantissaBits == 53

\* the weight of the lowest bit a double can hold is 2^MinExp; a value of
\* 2^MaxExp or more is beyond the largest double
MinExp == 0 - 1074
MaxExp == 1024

Zero == [m |-> <<>>, e |-> 0]

\* inf, what float() and * give beyond the largest double
Inf == [m |-> <<>>, e |-> MaxExp]

\* the double nearest to a * 2^e0 (to nearest, ties to even): a is cut by k
\* bits to 53 bits, or to the bit of weight 2^MinExp when that is coarser,
\* and goes up when the bits cut are more than half of the last bit kept, or
\* half of it with that bit odd; sticky tells that the exact value lies
\* above a * 2^e0
RoundToDouble(a, sticky, e0) ==
    LET Cut(k) ==
            LET half == k >= 1 /\ k <= BigBitLen(a) /\ BigBit(a, k) = 1
                above == sticky \/ BigLowBits(a, k - 1)
                Carry(m1) ==
                    LET over == BigBitLen(m1) > MantissaBits
                        e2 == IF over THEN e0 + k + 1 ELSE e0 + k
                        Result(m2) ==
                            IF m2 = <<>> THEN Zero
                            ELSE IF BigBitLen(m2) + e2 > MaxExp THEN Inf
                            ELSE [m |-> m2, e |-> e2]
                    IN  Of(Result, IF over THEN BigShiftRight(m1, 1) ELSE m1)
                Up(m) ==
                    LET up == half /\ (above \/ (m # <<>> /\ m[1] % 2 = 1))
                    IN  Of(Carry, IF up THEN BigAdd(m, <<>>, 1) ELSE m)
            IN  Of(Up, BigShiftRight(a, k))
    IN  Of(Cut, Max(Max(BigBitLen(a) - MantissaBits, MinExp - e0), 0))

\* the double nearest to the quotient dm of a division whose dividend was
\* scaled by 2^k
RoundedQuotient(dm, k) == RoundToDouble(dm.q, dm.inexact, 0 - k)

\* the double nearest to d / 10^frac, d scaled by 2^k before the division
FloatOfBig(d, frac, k) ==
    IF d = <<>> THEN Zero ELSE RoundedQuotient(BigDivPow10(BigShiftLeft(d, k), frac), k)

\* float(text) for digits with frac fractional digits among them: the
\* double nearest to digits / 10^frac, inf beyond the largest double and
\* 0.0 below half the smallest one. The digits are scaled by 2^k before the
\* division so that the quotient holds more than 53 bits.
PyFloat(digits, frac) == FloatOfBig(BigOfDigits(digits), frac, 56 + 4 * frac)

\* base * mul in binary64, mul a whole number
FloatTimes(x, mul) ==
    IF x = Inf \/ x.m = <<>> THEN x
    ELSE Of(LAMBDA product : RoundToDouble(product, FALSE, x.e), BigTimes(x.m, mul))

\* int(x) of a double that is neither negative nor inf
PyInt(x) == IF x.e >= 0 THEN BigShiftLeft(x.m, x.e) ELSE BigShiftRight(x.m, 0 - x.e)

\* ---- the function ----

\* the index of the last character of the run of characters that satisfy
\* Test and start at s[i], i - 1 when s[i] does not satisfy it
RunEnd(s, i, Test(_)) ==
    Loop(LAMBDA e, j : IF e = j - 1 /\ Test(s[j]) THEN j ELSE e, i - 1, i, Len(s))

\* the number of characters at the start of s that satisfy Test
RunLen(s, Test(_)) == RunEnd(s, 1, Test)

\* s.strip()
LStrip(s) == SubSeq(s, RunLen(s, IsSpace) + 1, Len(s))
RStrip(s) == SubSeq(s, 1, Loop(LAMBDA e, j : IF IsSpace(s[j]) THEN e ELSE j, 0, 1, Len(s)))
Strip(s) == Of(RStrip, LStrip(s))

\* NUM_RE.search(s): the leftmost match of ([\d,.]+)\s*([kKmMbB]?), as
\* [found, num, suf]. The match starts at the first character of [\d,.],
\* takes its run, the spaces after it and a suffix character if one follows.
NumReSearch(s) ==
    LET Match(i) ==
            LET Spaces(e) ==
                    LET Suffix(w) ==
                            [found |-> TRUE,
                             num |-> SubSeq(s, i, e),
                             suf |-> IF w < Len(s) /\ IsSuffix(s[w + 1]) THEN <<s[w + 1]>> ELSE <<>>]
                    IN  Of(Suffix, RunEnd(s, e + 1, IsSpace))
            IN  Of(Spaces, RunEnd(s, i, IsNumChar))
        From(first) ==
            IF first = 0 THEN [found |-> FALSE, num |-> <<>>, suf |-> <<>>] ELSE Match(first)
    IN  Of(From, Loop(LAMBDA f, j : IF f = 0 /\ IsNumChar(s[j]) THEN j ELSE f, 0, 1, Len(s)))

\* num.replace(",", "")
RemoveCommas(num) == SelectSeq(num, LAMBDA c : c # ",")

DotCount(t) == Cardinality({ i \in 1..Len(t) : t[i] = "." })

\* the index of the first point of t, one past its end when it has none
DotAt(t) ==
    LET dots == { i \in 1..Len(t) : t[i] = "." }
    IN  IF dots = {} THEN Len(t) + 1 ELSE CHOOSE i \in dots : \A j \in dots : i <= j

\* float(t) accepts t without asking for a digit
FloatAcceptsNoDigit(t) == DotCount(t) <= 1

\* float(t) accepts t, a text of digits and dots: at most one dot and at
\* least one digit
FloatAccepts(t) == DotCount(t) <= 1 /\ \E i \in 1..Len(t) : t[i] \in DecimalChars

\* {"k": 1_000, "m": 1_000_000, "b": 1_000_000_000}.get(suf.lower(), 1)
Multiplier(suf) ==
    IF suf \in {<<"k">>, <<"K">>} THEN 1000
    ELSE IF suf \in {<<"m">>, <<"M">>} THEN 1000000
    ELSE IF suf \in {<<"b">>, <<"B">>} THEN 1000000000
    ELSE 1

\* the result of a call that raises: int() of inf, outside the try
OverflowError == <<"OverflowError">>

\* float() of a text it refuses raises ValueError inside the try of lines
\* 110-113
ValueError == <<"ValueError">>

\* the call without the handler: the exception leaves it
ExceptAbsent(exc) == exc

\* except Exception: return "" (lines 112-113)
ExceptReturns(exc) == <<>>

\* what leaves parse_compact_number as an exception
IsRaised(outcome) == outcome \in {OverflowError, ValueError}

\* line 115: str(int(scaled)), or OverflowError when int() raises on inf
WholeText(scaled) == IF scaled = Inf THEN OverflowError ELSE BigToText(PyInt(scaled))

\* the number of digits after the point of t
FracDigits(t) == IF DotAt(t) > Len(t) THEN 0 ELSE Len(t) - DotAt(t)

\* lines 110-115 for the number t, its separators removed, and the suffix
\* suf: "" when float() refuses t, else float() of it, the product of line
\* 115 and its whole part
ScaledText(t, suf) ==
    IF ~FloatAccepts(t) THEN ExceptReturns(ValueError)
    ELSE WholeText(FloatTimes(PyFloat(SelectSeq(t, LAMBDA c : c # "."), FracDigits(t)),
                              Multiplier(suf)))

\* lines 107-115 for the match m of line 106
MatchText(m) == IF ~m.found THEN <<>> ELSE ScaledText(RemoveCommas(m.num), m.suf)

\* the text returned, or OverflowError when line 115 raises
parse_compact_number(text) ==
    MatchText(NumReSearch(Strip(IF text = NoneText THEN <<>> ELSE text)))

\* the characters of the input texts
TextChars == {"4", "1", ",", ".", "m", "K", " ", "x", "\t", "U+0663"}

\* a whole number of DigitsToInf digits or more is beyond the largest
\* double, 1.797...e308, when its first digits are above 1797; one of
\* NearInf digits gets there when scaled by 10^9
DigitsToInf == 309
NearInf == 301

\* a fraction with ZerosToSubnormal zeros after the point is below the
\* smallest normal double, with ZerosToZero zeros below half the smallest
\* double
ZerosToSubnormal == 320
ZerosToZero == 330

\* texts long enough to leave the range of a double
LongTexts ==
    { Copies("4", DigitsToInf),
      Copies("1", DigitsToInf),
      Copies("4", NearInf) \o <<"b">>,
      Copies("1", NearInf) \o <<"K">>,
      <<".">> \o Copies("0", ZerosToSubnormal) \o <<"4">>,
      <<".">> \o Copies("0", ZerosToZero) \o <<"4", "b">> }

InitNum ==
    /\ n_in \in SeqsUpTo(TextChars, MaxTextLen) \cup {NoneText} \cup LongTexts
    /\ n_out = <<>>
    /\ npc = "call"

\* a call that returns
ParseCompactNumber ==
    /\ npc = "call"
    /\ ~IsRaised(parse_compact_number(n_in))
    /\ n_out' = parse_compact_number(n_in)
    /\ npc' = "done"
    /\ UNCHANGED n_in
    /\ UNCHANGED notNum

\* a call that raises: nothing is returned
ParseCompactNumberRaises ==
    /\ npc = "call"
    /\ IsRaised(parse_compact_number(n_in))
    /\ npc' = "raised"
    /\ UNCHANGED <<n_in, n_out>>
    /\ UNCHANGED notNum

NextNum == ParseCompactNumber \/ ParseCompactNumberRaises

\* a call of the normaliser on its own
InitSpecNum == InitNum /\ IdleCrawl /\ IdleRun /\ IdleFind /\ IdleDetail /\ IdleMerge /\ IdleHunt /\ IdleScripts

SpecNum == InitSpecNum /\ [][NextNum]_vars

(***************************************************************************)
(* Claims about the compact-number normaliser                              *)
(***************************************************************************)

HasDigit(text) == text # NoneText /\ \E i \in 1..Len(text) : text[i] \in DecimalChars

\* C9: for every input text without a digit, the empty text and a missing
\* value included, the normaliser does not raise, and it returns the empty
\* text.
C9_NoDigitGivesEmpty ==
    ~HasDigit(n_in) =>
        /\ npc # "raised"
        /\ npc = "done" => n_out = <<>>

\* a text of separators and a magnitude letter only
C9_Witness ==
    /\ npc = "done"
    /\ ~HasDigit(n_in)
    /\ \E i \in 1..Len(n_in) : n_in[i] = "."
    /\ \E i \in 1..Len(n_in) : n_in[i] \in {"m", "K"}
    /\ n_out = <<>>

\* the first numeric run of a text, thousands separators removed
FirstRun(text) == RemoveCommas(NumReSearch(Strip(IF text = NoneText THEN <<>> ELSE text)).num)

\* a run is a number: digits with at most one decimal point
IsNumber(t) ==
    /\ Cardinality({ i \in 1..Len(t) : t[i] = "." }) <= 1
    /\ \E i \in 1..Len(t) : t[i] # "."

\* the number of decimal places the suffix moves the point
Places(suf) ==
    IF suf \in {<<"k">>, <<"K">>} THEN 3
    ELSE IF suf \in {<<"m">>, <<"M">>} THEN 6
    ELSE IF suf \in {<<"b">>, <<"B">>} THEN 9
    ELSE 0

DropLeadingZeros(d) == SubSeq(d, RunLen(d, LAMBDA c : c = "0") + 1, Len(d))

\* the decimal text of the integer part of t * 10^places, computed on the digits
ScaledIntegerText(t, places) ==
    LET dot == DotAt(t)
        whole == SubSeq(t, 1, dot - 1)
        frac == SubSeq(t, dot + 1, Len(t))
        moved == SubSeq(frac \o [i \in 1..places |-> "0"], 1, places)
        d == DropLeadingZeros(whole \o moved)
    IN  IF d = <<>> THEN <<"0">> ELSE d

\* C10: when the first numeric run of the text is a number v, the result is
\* the decimal text of the integer part of v times the multiplier of the
\* suffix (k 10^3, m 10^6, b 10^9, none 1); a run that is no number gives the
\* empty text.
C10_ScaledInteger ==
    (npc = "done" /\ HasDigit(n_in)) =>
        LET m == NumReSearch(Strip(n_in))
        IN  IF IsNumber(FirstRun(n_in))
            THEN n_out = ScaledIntegerText(FirstRun(n_in), Places(m.suf))
            ELSE n_out = <<>>

(***************************************************************************)
(* Record resolver                                                         *)
(***************************************************************************)

EmptyMap == JMap(<<>>)

\* truth value of a JSON value, as Python's "or" and "not" take it
Truthy(v) == v[1] \notin {"null", "None"} /\ v[2] # <<>> /\ v # JInt(<<"0">>)

\* a or b
PyOr(a, b) == IF Truthy(a) THEN a ELSE b

\* any(k in d for k in keys)
AnyKey(d, keys) == \E k \in keys : HasKey(d, k)

\* the test before the capture-log stage
NeedsCaptureLog(d) ==
    ~Truthy(d) \/ ~AnyKey(d, {Chars("pinner"), Chars("board"), Chars("images"), Chars("counts"), Chars("aggregatedStats"), Chars("saveCount")})

\* the test before the script stage, with all for any: entered as soon as
\* one of the three keys is missing
NeedsScriptsOneMissing(d) == ~Truthy(d) \/ \E k \in {Chars("pinner"), Chars("board"), Chars("images")} : ~HasKey(d, k)

\* the test before the script stage
NeedsScripts(d) == ~Truthy(d) \/ ~AnyKey(d, {Chars("pinner"), Chars("board"), Chars("images")})

\* v is None
IsNone(v) == v[1] \in {"null", "None"}

FieldNames == DOMAIN EmptyFields

\* f"https://www.pinterest.com/{username}/"
ProfileUrl(username) == Chars("https://www.pinterest.com/") \o username \o <<"/">>

\* f"https://www.pinterest.com/{owner_usr}/{slug}/"
ComposedBoardUrl(owner_usr, slug) ==
    Chars("https://www.pinterest.com/") \o owner_usr \o <<"/">> \o slug \o <<"/">>

\* the size labels in the order both image loops try them
SizeKeys == <<Chars("orig"), Chars("564x"), Chars("474x"), Chars("236x")>>

\* str(d.get("grid_title") or d.get("gridTitle") or d.get("title") or "")
BaseTitle(d) ==
    PyStr(PyOr(Get(d, Chars("grid_title")), PyOr(Get(d, Chars("gridTitle")), PyOr(Get(d, Chars("title")), JStr(<<>>)))))

\* str(d.get("description") or d.get("closeupUnifiedDescription") or "")
BaseDescription(d) ==
    PyStr(PyOr(Get(d, Chars("description")), PyOr(Get(d, Chars("closeupUnifiedDescription")), JStr(<<>>))))

\* the image loop of the base fields: a later tier's value replaces an
\* earlier tier's one, the loop stops at the first tier that leaves a URL
RECURSIVE BaseImagesFrom(_, _, _)
BaseImagesFrom(images, keys, img) ==
    IF keys = <<>> THEN img
    ELSE LET d == Get(images, Head(keys))
         IN  IF IsMap(d)
             THEN LET now == [image_url |-> PyStr(PyOr(Get(d, Chars("url")), JStr(img.image_url))),
                              image_width |-> PyStr(PyOr(Get(d, Chars("width")), JStr(img.image_width))),
                              image_height |-> PyStr(PyOr(Get(d, Chars("height")), JStr(img.image_height)))]
                  IN  IF now.image_url # <<>> THEN now
                      ELSE BaseImagesFrom(images, Tail(keys), now)
             ELSE BaseImagesFrom(images, Tail(keys), img)

BaseImages(pin) ==
    LET none == [image_url |-> <<>>, image_width |-> <<>>, image_height |-> <<>>]
        images == Get(pin, Chars("images"))
    IN  IF IsMap(images) THEN BaseImagesFrom(images, SizeKeys, none) ELSE none

\* the keys whose mappings the base counters are read from, in order
CountKeys ==
    <<Chars("saveCount"), Chars("aggregated_pin_data"), Chars("aggregatedPinData"),
      Chars("aggregatedStats"), Chars("counts"), Chars("stats")>>

RECURSIVE BaseCountsFrom(_, _, _)
BaseCountsFrom(pin, keys, cnt) ==
    IF keys = <<>> THEN cnt
    ELSE LET d == Get(pin, Head(keys))
         IN  IF IsMap(d)
             THEN BaseCountsFrom(pin, Tail(keys),
                      [save_count |-> IF cnt.save_count # <<>> THEN cnt.save_count
                                      ELSE PyStr(PyOr(Get(d, Chars("saveCount")), PyOr(Get(d, Chars("saves")), JStr(<<>>)))),
                       comment_count |-> IF cnt.comment_count # <<>> THEN cnt.comment_count
                                         ELSE PyStr(PyOr(Get(d, Chars("commentCount")),
                                                         PyOr(Get(d, Chars("comments")), JStr(<<>>))))])
             ELSE BaseCountsFrom(pin, Tail(keys), cnt)

BaseCounts(pin) ==
    LET cnt == BaseCountsFrom(pin, CountKeys, [save_count |-> <<>>, comment_count |-> <<>>])
    IN  [save_count |-> IF cnt.save_count # <<>> THEN cnt.save_count
                        ELSE PyStr(PyOr(Get(pin, Chars("saveCount")),
                                        PyOr(Get(pin, Chars("repinCount")), JStr(<<>>)))),
         comment_count |-> IF cnt.comment_count # <<>> THEN cnt.comment_count
                           ELSE PyStr(PyOr(Get(pin, Chars("commentCount")), JStr(<<>>)))]

\* the board URL of the base fields: the URL given, else owner and slug composed
BaseBoardUrl(board) ==
    LET given == PyStr(PyOr(Get(board, Chars("url")), JStr(<<>>)))
        owner == IF IsMap(Get(board, Chars("owner"))) THEN Get(board, Chars("owner")) ELSE EmptyMap
        owner_usr == PyOr(Get(owner, Chars("username")), JStr(<<>>))
        slug == PyOr(Get(board, Chars("slug")), JStr(<<>>))
    IN  IF given # <<>> THEN given
        ELSE IF Truthy(owner_usr) /\ Truthy(slug)
             THEN ComposedBoardUrl(PyStr(owner_usr), PyStr(slug))
             ELSE <<>>

\* stage 4 of scrape_pin_detail: the base fields read from the candidate mapping
BaseFields(pin) ==
    LET img == BaseImages(pin)
        cnt == BaseCounts(pin)
        pinner == Get(pin, Chars("pinner"))
        board == Get(pin, Chars("board"))
        username == IF IsMap(pinner) THEN PyStr(PyOr(Get(pinner, Chars("username")), JStr(<<>>))) ELSE <<>>
    IN  [title |-> BaseTitle(pin),
         description |-> BaseDescription(pin),
         created_at |-> PyStr(PyOr(Get(pin, Chars("created_at")),
                                   PyOr(Get(pin, Chars("createdAt")), JStr(<<>>)))),
         image_url |-> img.image_url,
         image_width |-> img.image_width,
         image_height |-> img.image_height,
         save_count |-> cnt.save_count,
         comment_count |-> cnt.comment_count,
         pinner_username |-> username,
         pinner_fullname |-> IF IsMap(pinner)
                             THEN PyStr(PyOr(Get(pinner, Chars("full_name")),
                                             PyOr(Get(pinner, Chars("fullName")), JStr(<<>>))))
                             ELSE <<>>,
         pinner_profile_url |-> IF username # <<>> THEN ProfileUrl(username) ELSE <<>>,
         board_name |-> IF IsMap(board) THEN PyStr(PyOr(Get(board, Chars("name")), JStr(<<>>))) ELSE <<>>,
         board_url |-> IF IsMap(board) THEN BaseBoardUrl(board) ELSE <<>>,
         outbound_link |-> PyStr(PyOr(Get(pin, Chars("link")),
                                      PyOr(Get(pin, Chars("dominant_link")), JStr(<<>>))))]

\* the title and description lines of enrich_from_closeup_data
CloseTitle(close) == PyStr(PyOr(Get(close, Chars("gridTitle")), PyOr(Get(close, Chars("title")), JStr(<<>>))))
CloseDescription(close) ==
    PyStr(PyOr(Get(close, Chars("closeupUnifiedDescription")), PyOr(Get(close, Chars("description")), JStr(<<>>))))
CloseCreated(close) == PyStr(PyOr(Get(close, Chars("createdAt")), JStr(<<>>)))

\* the counts block writing the counters whether or not they are empty
EnrichCountsOverwrite(close, out) ==
    LET agg == PyOr(Get(close, Chars("aggregatedPinData")), PyOr(Get(close, Chars("aggregated_pin_data")), EmptyMap))
        sc == IF IsMap(agg) THEN Get(agg, Chars("saveCount")) ELSE NoMatch
        cc == IF IsMap(agg) THEN Get(agg, Chars("commentCount")) ELSE NoMatch
        o1 == [out EXCEPT !.save_count = IF ~IsNone(sc) THEN PyStr(sc) ELSE @,
                          !.comment_count = IF ~IsNone(cc) THEN PyStr(cc) ELSE @]
        rc == Get(close, Chars("repinCount"))
    IN  IF o1.save_count = <<>> /\ ~IsNone(rc) THEN [o1 EXCEPT !.save_count = PyStr(rc)] ELSE o1

\* the counters of enrich_from_closeup_data
EnrichCounts(close, out) ==
    LET agg == PyOr(Get(close, Chars("aggregatedPinData")), PyOr(Get(close, Chars("aggregated_pin_data")), EmptyMap))
        sc == IF IsMap(agg) THEN Get(agg, Chars("saveCount")) ELSE NoMatch
        cc == IF IsMap(agg) THEN Get(agg, Chars("commentCount")) ELSE NoMatch
        o1 == [out EXCEPT !.save_count = IF @ = <<>> /\ ~IsNone(sc) THEN PyStr(sc) ELSE @,
                          !.comment_count = IF @ = <<>> /\ ~IsNone(cc) THEN PyStr(cc) ELSE @]
        rc == Get(close, Chars("repinCount"))
    IN  IF o1.save_count = <<>> /\ ~IsNone(rc) THEN [o1 EXCEPT !.save_count = PyStr(rc)] ELSE o1

\* the pinner block of enrich_from_closeup_data
EnrichPinner(close, out) ==
    LET pinner == PyOr(Get(close, Chars("pinner")), EmptyMap)
        o1 == [out EXCEPT
                 !.pinner_username = IF @ = <<>> THEN PyStr(PyOr(Get(pinner, Chars("username")), JStr(<<>>)))
                                     ELSE @,
                 !.pinner_fullname = IF @ = <<>>
                                     THEN PyStr(PyOr(Get(pinner, Chars("full_name")),
                                                     PyOr(Get(pinner, Chars("fullName")), JStr(<<>>))))
                                     ELSE @]
    IN  IF ~IsMap(pinner) THEN out
        ELSE IF o1.pinner_profile_url = <<>> /\ o1.pinner_username # <<>>
             THEN [o1 EXCEPT !.pinner_profile_url = ProfileUrl(o1.pinner_username)]
             ELSE o1

\* owner.get(...) of the board block raises AttributeError when the board URL
\* has to be composed and "owner" holds a non-empty value that is no mapping
EnrichRaises(close, out) ==
    LET board == PyOr(Get(close, Chars("board")), EmptyMap)
    IN  /\ IsMap(board)
        /\ out.board_url = <<>>
        /\ ~Truthy(Get(board, Chars("url")))
        /\ Truthy(Get(board, Chars("owner")))
        /\ ~IsMap(Get(board, Chars("owner")))

\* the board block of enrich_from_closeup_data (where it does not raise)
EnrichBoard(close, out) ==
    LET board == PyOr(Get(close, Chars("board")), EmptyMap)
        o1 == [out EXCEPT !.board_name = IF @ = <<>> THEN PyStr(PyOr(Get(board, Chars("name")), JStr(<<>>)))
                                         ELSE @]
        candidate == PyOr(Get(board, Chars("url")), JStr(<<>>))
        owner == IF IsMap(Get(board, Chars("owner"))) THEN Get(board, Chars("owner")) ELSE EmptyMap
        owner_usr == PyOr(Get(owner, Chars("username")), JStr(<<>>))
        slug == PyOr(Get(board, Chars("slug")), JStr(<<>>))
    IN  IF ~IsMap(board) THEN out
        ELSE IF o1.board_url # <<>> THEN o1
        ELSE IF Truthy(candidate) THEN [o1 EXCEPT !.board_url = PyStr(candidate)]
        ELSE IF Truthy(owner_usr) /\ Truthy(slug)
             THEN [o1 EXCEPT !.board_url = ComposedBoardUrl(PyStr(owner_usr), PyStr(slug))]
             ELSE o1

\* the image loop of enrich_from_closeup_data: width and height are written
\* only while empty, the loop stops at the first tier that leaves a URL
RECURSIVE EnrichImagesFrom(_, _, _)
EnrichImagesFrom(images, keys, out) ==
    IF keys = <<>> THEN out
    ELSE LET d == Get(images, Head(keys))
         IN  IF IsMap(d)
             THEN LET now == [out EXCEPT
                                !.image_url = PyStr(PyOr(Get(d, Chars("url")), JStr(@))),
                                !.image_width = IF @ = <<>> /\ Truthy(Get(d, Chars("width")))
                                                THEN PyStr(Get(d, Chars("width"))) ELSE @,
                                !.image_height = IF @ = <<>> /\ Truthy(Get(d, Chars("height")))
                                                 THEN PyStr(Get(d, Chars("height"))) ELSE @]
                  IN  IF now.image_url # <<>> THEN now
                      ELSE EnrichImagesFrom(images, Tail(keys), now)
             ELSE EnrichImagesFrom(images, Tail(keys), out)

EnrichImages(close, out) ==
    LET images == PyOr(Get(close, Chars("images")), EmptyMap)
    IN  IF out.image_url = <<>> /\ IsMap(images) THEN EnrichImagesFrom(images, SizeKeys, out) ELSE out

\* title, description and creation time of enrich_from_closeup_data
EnrichTexts(close, out) ==
    [out EXCEPT
       !.title = IF @ = <<>> /\ CloseTitle(close) # <<>> THEN CloseTitle(close) ELSE @,
       !.description = IF @ = <<>> /\ CloseDescription(close) # <<>>
                       THEN CloseDescription(close) ELSE @,
       !.created_at = IF @ = <<>> /\ CloseCreated(close) # <<>>
                      THEN CloseCreated(close) ELSE @]

\* the outbound link of enrich_from_closeup_data
EnrichLink(close, out) ==
    [out EXCEPT !.outbound_link =
       IF @ = <<>>
       THEN PyStr(PyOr(Get(close, Chars("link")), PyOr(Get(close, Chars("dominant_link")), JStr(<<>>))))
       ELSE @]

\* enrich_from_closeup_data(close, fields_now): only fields still empty are
\* filled; the blocks run in the order of the code
enrich_from_closeup_data(close, fields_now) ==
    EnrichImages(close,
        EnrichLink(close,
            EnrichBoard(close,
                EnrichPinner(close,
                    EnrichCounts(close,
                        EnrichTexts(close, fields_now))))))

\* the mappings the channels of a page can yield
TitleEntries ==
    { <<>>, << <<Chars("title"), JStr(<<"A">>)>> >>, << <<Chars("title"), JStr(<<"B">>)>> >>,
      << <<Chars("gridTitle"), JStr(<<"G">>)>> >>, << <<Chars("title"), JNull>> >> }
DescriptionEntries ==
    { <<>>, << <<Chars("description"), JStr(<<"D">>)>> >>, << <<Chars("closeupUnifiedDescription"), JStr(<<"U">>)>> >> }
RelationEntries ==
    { <<>>, << <<Chars("pinner"), JMap(<< <<Chars("username"), JStr(<<"u">>)>> >>)>> >>,
      << <<Chars("counts"), JMap(<< <<Chars("saveCount"), JInt(<<"5">>)>> >>)>> >> }

\* further relational entries: counters given as texts, and a mapping that
\* carries pinner, board and images
CounterEntries ==
    { << <<Chars("counts"), JMap(<< <<Chars("saveCount"), JStr(<<"4", ".", "1", "K">>)>>,
                             <<Chars("commentCount"), JStr(<<"1", ",", "4">>)>> >>)>> >>,
      << <<Chars("saveCount"), JStr(<<"²">>)>> >>,
      << <<Chars("pinner"), JMap(<< <<Chars("username"), JStr(<<"u">>)>> >>)>>,
         <<Chars("board"), JMap(<< <<Chars("name"), JStr(<<"b">>)>> >>)>>,
         <<Chars("images"), JMap(<< <<Chars("orig"), JMap(<< <<Chars("url"), JStr(<<"i">>)>> >>)>> >>)>> >> }

PageDicts ==
    { JMap(<< <<Chars("id"), JStr(<<"1">>)>> >> \o t \o d \o r) :
        t \in TitleEntries, d \in DescriptionEntries, r \in RelationEntries }
      \cup { JMap(<< <<Chars("id"), JStr(<<"1">>)>>, <<Chars("title"), JStr(<<"A">>)>> >> \o r) : r \in CounterEntries }

\* a mapping that fills every field, its save counter a text whose number,
\* scaled, is beyond the largest double
LongCountDict ==
    JMap(<< <<Chars("id"), JStr(<<"1">>)>>,
            <<Chars("title"), JStr(<<"A">>)>>,
            <<Chars("description"), JStr(<<"D">>)>>,
            <<Chars("created_at"), JStr(<<"2", "0", "2", "0">>)>>,
            <<Chars("images"), JMap(<< <<Chars("orig"), JMap(<< <<Chars("url"), JStr(<<"i">>)>>,
                                                                 <<Chars("width"), JInt(<<"1">>)>>,
                                                                 <<Chars("height"), JInt(<<"1">>)>> >>)>> >>)>>,
            <<Chars("counts"), JMap(<< <<Chars("saveCount"), JStr(Copies("4", NearInf) \o <<"b">>)>>,
                                       <<Chars("commentCount"), JInt(<<"1">>)>> >>)>>,
            <<Chars("pinner"), JMap(<< <<Chars("username"), JStr(<<"u">>)>>,
                                       <<Chars("full_name"), JStr(<<"N">>)>> >>)>>,
            <<Chars("board"), JMap(<< <<Chars("name"), JStr(<<"b">>)>>,
                                      <<Chars("url"), JStr(<<"/", "u", "/", "b", "/">>)>> >>)>>,
            <<Chars("link"), JStr(Chars("http://o"))>> >>)

\* what the embedded data script can hold
InlineDicts == { d \in PageDicts : PinLike(d) } \cup {LongCountDict}

\* the texts the meta tags and headings of a page can show
DomTexts == { <<>>, <<"T">> }

\* a tier's value for a field becomes the field's first supplied value when
\* no earlier tier supplied one
NoteSupplied(sup, title, description) ==
    [title |-> IF sup.title = <<>> THEN title ELSE sup.title,
     description |-> IF sup.description = <<>> THEN description ELSE sup.description]

InitDetail ==
    /\ pin_dict = EmptyMap
    /\ fields = EmptyFields
    /\ dpc = "inline"
    /\ supplied = [title |-> <<>>, description |-> <<>>]
    /\ tiers = <<>>

\* stage 1: the mapping found in the embedded data script, if any
DetailInline ==
    /\ dpc = "inline"
    /\ \E cand \in InlineDicts \cup {NoMatch} :
         /\ pin_dict' = IF IsMap(cand) THEN cand ELSE pin_dict
         /\ supplied' = IF IsMap(cand)
                        THEN NoteSupplied(supplied, BaseTitle(cand), BaseDescription(cand))
                        ELSE supplied
    /\ dpc' = "cdp"
    /\ UNCHANGED fields
    /\ tiers' = Append(tiers, "InlineJSON")
    /\ UNCHANGED notDetail

\* stage 2 entered: what hunt_json_in_cdp_logs returns replaces the candidate
DetailCaptureLog ==
    /\ dpc = "cdp"
    /\ NeedsCaptureLog(pin_dict)
    /\ \E net_cand \in PageDicts \cup {NoMatch} :
         /\ pin_dict' = IF IsMap(net_cand) THEN net_cand ELSE pin_dict
         /\ supplied' = IF IsMap(net_cand)
                        THEN NoteSupplied(supplied, BaseTitle(net_cand), BaseDescription(net_cand))
                        ELSE supplied
    /\ dpc' = "scripts"
    /\ UNCHANGED fields
    /\ tiers' = Append(tiers, "CaptureLog")
    /\ UNCHANGED notDetail

\* stage 2 entered and hunt_json_in_cdp_logs raises: the log holds an entry
\* whose message is null, m.get fails outside the try and the exception
\* leaves scrape_pin_detail; no record is built
DetailCaptureLogRaises ==
    /\ dpc = "cdp"
    /\ NeedsCaptureLog(pin_dict)
    /\ dpc' = "raised"
    /\ UNCHANGED <<pin_dict, fields, supplied>>
    /\ tiers' = Append(tiers, "CaptureLog")
    /\ UNCHANGED notDetail

\* stage 2 skipped
DetailSkipCaptureLog ==
    /\ dpc = "cdp"
    /\ ~NeedsCaptureLog(pin_dict)
    /\ dpc' = "scripts"
    /\ UNCHANGED <<pin_dict, fields, supplied>>
    /\ UNCHANGED tiers
    /\ UNCHANGED notDetail

\* stage 3 entered: the candidate chosen among the script blobs replaces the candidate
DetailScripts ==
    /\ dpc = "scripts"
    /\ NeedsScripts(pin_dict)
    /\ \E cand \in PageDicts \cup {NoMatch} :
         /\ pin_dict' = IF IsMap(cand) THEN cand ELSE pin_dict
         /\ supplied' = IF IsMap(cand)
                        THEN NoteSupplied(supplied, BaseTitle(cand), BaseDescription(cand))
                        ELSE supplied
    /\ dpc' = "base"
    /\ UNCHANGED fields
    /\ tiers' = Append(tiers, "ScriptBruteForce")
    /\ UNCHANGED notDetail

\* stage 3 skipped
DetailSkipScripts ==
    /\ dpc = "scripts"
    /\ ~NeedsScripts(pin_dict)
    /\ dpc' = "base"
    /\ UNCHANGED <<pin_dict, fields, supplied>>
    /\ UNCHANGED tiers
    /\ UNCHANGED notDetail

\* stage 4: the base fields are read from the candidate
DetailBaseFields ==
    /\ dpc = "base"
    /\ fields' = BaseFields(pin_dict)
    /\ dpc' = "closeup"
    /\ UNCHANGED <<pin_dict, supplied>>
    /\ UNCHANGED tiers
    /\ UNCHANGED notDetail

\* what the detail-query search can yield: a page mapping, or a mapping
\* whose board owner is a text instead of a mapping
CloseupDicts ==
    PageDicts \cup
        { JMap(<< <<Chars("id"), JStr(<<"1">>)>>,
                  <<Chars("board"), JMap(<< <<Chars("owner"), JStr(<<"o">>)>>, <<Chars("slug"), JStr(<<"s">>)>> >>)>> >>) }

\* stage 5: the detail-query payload, if any, fills the empty fields
DetailCloseup ==
    /\ dpc = "closeup"
    /\ \E closeup \in CloseupDicts \cup {NoMatch} :
         /\ IsMap(closeup) => ~EnrichRaises(closeup, fields)
         /\ fields' = IF IsMap(closeup) THEN enrich_from_closeup_data(closeup, fields) ELSE fields
         /\ supplied' = IF IsMap(closeup)
                        THEN NoteSupplied(supplied, CloseTitle(closeup), CloseDescription(closeup))
                        ELSE supplied
    /\ dpc' = "dom"
    /\ UNCHANGED pin_dict
    /\ tiers' = Append(tiers, "CloseupEnrichment")
    /\ UNCHANGED notDetail

\* stage 5 raises in the search: get_closeup_data_from_any calls
\* hunt_json_in_cdp_logs, which raises on an entry whose message is null
DetailCloseupHuntRaises ==
    /\ dpc = "closeup"
    /\ dpc' = "raised"
    /\ UNCHANGED <<pin_dict, fields, supplied>>
    /\ tiers' = Append(tiers, "CloseupEnrichment")
    /\ UNCHANGED notDetail

\* stage 5 raises: enrich_from_closeup_data is called outside any try
DetailCloseupRaises ==
    /\ dpc = "closeup"
    /\ \E closeup \in CloseupDicts : EnrichRaises(closeup, fields)
    /\ dpc' = "raised"
    /\ UNCHANGED <<pin_dict, fields, supplied>>
    /\ tiers' = Append(tiers, "CloseupEnrichment")
    /\ UNCHANGED notDetail

\* the outcome of one read of an element's text: a text (empty when the
\* element is absent, get_text_safe) or a stale-element exception
Stale == <<"StaleElementReferenceException">>

\* retry_stale's default number of guarded attempts
Tries == 3

\* the reads of one element over time: a text at once, stale until the last,
\* unguarded call and then a text, or stale on every attempt
ReadHistories ==
    { [i \in 1..(Tries + 1) |-> IF i < k THEN Stale ELSE text] :
        k \in {1, Tries + 1, Tries + 2}, text \in DomTexts }

\* retry_stale(fn): the first of the guarded attempts that is not stale, else
\* whatever the last, unguarded call gives, its exception included
RECURSIVE RetryFrom(_, _)
RetryFrom(reads, k) ==
    IF k > Tries THEN reads[k]
    ELSE IF reads[k] # Stale THEN reads[k]
    ELSE RetryFrom(reads, k + 1)

retry_stale(reads) == RetryFrom(reads, 1)

\* an element of the page as the fallbacks read it: its attributes (the
\* empty text when absent, safe_get_attr) and its text; present is FALSE
\* when find_element finds nothing
Element(href, text, rel) ==
    [present |-> TRUE, href |-> href, text |-> text, rel |-> rel,
     src |-> <<>>, data_src |-> <<>>, data_lazy_src |-> <<>>, srcset |-> <<>>,
     width |-> <<>>, height |-> <<>>, datetime |-> <<>>]

NoElement == [Element(<<>>, <<>>, <<>>) EXCEPT !.present = FALSE]

ImgElement(src, srcset, width, height) ==
    [Element(<<>>, <<>>, <<>>) EXCEPT !.src = src, !.srcset = srcset, !.width = width, !.height = height]

TimeElement(datetime) == [Element(<<>>, <<>>, <<>>) EXCEPT !.datetime = datetime]

\* the for loop of extract_image_src over the candidates
RECURSIVE FirstSrc(_)
FirstSrc(cands) ==
    IF cands = <<>> THEN <<>>
    ELSE LET c == Head(cands)
         IN  IF c = <<>> THEN FirstSrc(Tail(cands))
             ELSE IF HasSub(c, <<" ">>) /\ HasSub(c, Chars("http"))
                  THEN SplitFirst(Strip(SplitFirst(c, ",")), " ")
             ELSE c

\* extract_image_src(img_el): src, data-src, data-lazy-src, srcset in turn
extract_image_src(img_el) ==
    FirstSrc(<<img_el.src, img_el.data_src, img_el.data_lazy_src, img_el.srcset>>)

\* the image fallback: og:image fills an empty image_url; while a text of
\* the three is empty the first img element of the page, if any, fills the
\* empty ones
DomImage(f, og_image, img) ==
    LET url == IF f.image_url = <<>> THEN og_image ELSE f.image_url
    IN  IF (url = <<>> \/ f.image_width = <<>> \/ f.image_height = <<>>) /\ img.present
        THEN [f EXCEPT !.image_url = IF url = <<>> THEN extract_image_src(img) ELSE url,
                       !.image_width = IF @ = <<>> THEN img.width ELSE @,
                       !.image_height = IF @ = <<>> THEN img.height ELSE @]
        ELSE [f EXCEPT !.image_url = url]

\* what the pages show for description and image: the description meta tag,
\* the og:image meta tag and the first img element
HeadPage(dom_description, og_image, img) ==
    [dom_description |-> dom_description, og_image |-> og_image, img |-> img]

HeadPages ==
    { HeadPage(<<>>, <<>>, NoElement),
      HeadPage(<<"T">>, <<>>, NoElement),
      HeadPage(<<"T">>, Chars("http://m"), NoElement),
      HeadPage(<<>>, Chars("http://m"),
               ImgElement(Chars("https://s 2x"), <<>>, <<"1", "0">>, <<"2", "0">>)),
      HeadPage(<<"T">>, <<>>, ImgElement(<<>>, Chars("http://a 2x, http://b"), <<>>, <<>>)) }

\* the title fallback: og:title or twitter:title, else h1, else h2; Stale
\* when a heading read raises
DomTitle(meta_title, h1, h2) ==
    IF meta_title # <<>> THEN meta_title
    ELSE IF retry_stale(h1) # <<>> THEN retry_stale(h1)
    ELSE retry_stale(h2)

\* stage 6, title, description and image: meta tags, headings and the first
\* img element fill the fields still empty
DetailDomFallback ==
    /\ dpc = "dom"
    /\ \E meta_title \in DomTexts, h1 \in ReadHistories, h2 \in ReadHistories, page \in HeadPages :
         LET dom_title == DomTitle(meta_title, h1, h2)
             dom_description == page.dom_description
         IN  /\ fields.title = <<>> => dom_title # Stale
             /\ fields' = DomImage([fields EXCEPT
                                      !.title = IF @ = <<>> THEN dom_title ELSE @,
                                      !.description = IF @ = <<>> THEN dom_description ELSE @],
                                   page.og_image, page.img)
             /\ supplied' = NoteSupplied(supplied,
                                         IF fields.title = <<>> THEN dom_title ELSE <<>>,
                                         IF fields.description = <<>> THEN dom_description ELSE <<>>)
    /\ dpc' = "domcounts"
    /\ UNCHANGED pin_dict
    /\ tiers' = Append(tiers, "DOMFallback")
    /\ UNCHANGED notDetail

\* stage 6 raises: a heading stays stale through every attempt of retry_stale,
\* whose last call is outside the try
DetailDomRaises ==
    /\ dpc = "dom"
    /\ fields.title = <<>>
    /\ \E meta_title \in DomTexts, h1 \in ReadHistories, h2 \in ReadHistories :
         DomTitle(meta_title, h1, h2) = Stale
    /\ dpc' = "raised"
    /\ UNCHANGED <<pin_dict, fields, supplied>>
    /\ tiers' = Append(tiers, "DOMFallback")
    /\ UNCHANGED notDetail

\* the characters of the class [\d.,KMBkmb]
IsCountChar(c) == c \in DecimalChars \/ c \in {".", ",", "K", "M", "B", "k", "m", "b"}

\* re.search(r"([\d.,KMBkmb]+)\s*saves?", t) and its like for comments: the
\* group of the leftmost match, <<>> when nothing matches. A run of class
\* characters matches when spaces and then the word follow its end; the
\* leftmost match starts where its run starts.
ReCountGroup(t, word) ==
    LET ends(i) == RunEnd(t, i, IsCountChar)
        follows(j) == \E g \in (j + 1)..(Len(t) + 1) :
                          /\ \A h \in (j + 1)..(g - 1) : IsSpace(t[h])
                          /\ StartsAt(t, g, word)
        Leftmost(starts) ==
            IF starts = {} THEN <<>>
            ELSE Of(LAMBDA i : SubSeq(t, i, ends(i)), CHOOSE a \in starts : \A b \in starts : a <= b)
    IN  Of(Leftmost, { i \in 1..Len(t) : /\ IsCountChar(t[i])
                                          /\ (i = 1 \/ ~IsCountChar(t[i - 1]))
                                          /\ Of(follows, ends(i)) })

\* the for loop over the texts read from the page, entered while the counter
\* is empty: the first text that is not empty and matches gives
\* parse_compact_number of its group, OverflowError when that call raises;
\* the counter stays empty when none does
RECURSIVE DomCount(_, _)
DomCount(texts, word) ==
    IF texts = <<>> THEN <<>>
    ELSE IF Head(texts) = <<>> \/ ReCountGroup(Head(texts), word) = <<>>
         THEN DomCount(Tail(texts), word)
    ELSE parse_compact_number(ReCountGroup(Head(texts), word))

SaveWord == Chars("save")
CommentWord == Chars("comment")

\* t.lower() where it can hold ASCII letters: every character of LowerForms
\* gives its lower-case form, any other character (its lower-case form is
\* one character that is not ASCII) stays
LowerAscii(t) ==
    LET Step(out, i) == out \o (IF t[i] \in DOMAIN LowerForms THEN LowerForms[t[i]] ELSE <<t[i]>>)
    IN  Loop(Step, <<>>, 1, Len(t))

\* word in t.lower(), for a word of ASCII letters
LowerHas(t, word) == HasSub(LowerAscii(t), word)

\* the address of the site, with its closing slash
Origin == Chars("https://www.pinterest.com/")

\* if href.startswith("/"): href = "https://www.pinterest.com" + href
Absolute(href) ==
    IF href # <<>> /\ Head(href) = "/" THEN Chars("https://www.pinterest.com") \o href ELSE href

\* t.replace(old, ""): the occurrences of old are taken out from left to right
Without(t, old) ==
    LET Step(s, i) ==
            IF i < s.next THEN s
            ELSE IF StartsAt(t, i, old) THEN [out |-> s.out, next |-> i + Len(old)]
            ELSE [out |-> Append(s.out, t[i]), next |-> i + 1]
    IN  Loop(Step, [out |-> <<>>, next |-> 1], 1, Len(t)).out

\* href.replace("https://www.pinterest.com/", "")
PathOf(href) == Without(href, Origin)

\* path.count("/")
CountSlash(path) == Cardinality({ i \in 1..Len(path) : path[i] = "/" })

\* path.strip("/")
StripSlash(path) ==
    LET IsSlash(c) == c = "/"
        from == RunLen(path, IsSlash) + 1
        others == { i \in 1..Len(path) : path[i] # "/" }
    IN  IF others = {} THEN <<>>
        ELSE SubSeq(path, from, CHOOSE i \in others : \A j \in others : i >= j)

\* the for loop over the profile links: the first link that is no pin link
\* and whose path is one segment, not an ideas page, fills the empty ones of
\* pinner_username, pinner_profile_url and pinner_fullname
RECURSIVE ProfileFrom(_, _)
ProfileFrom(links, f) ==
    IF links = <<>> THEN f
    ELSE LET a == Head(links)
             href == Absolute(a.href)
             path == PathOf(href)
             maybe_user == StripSlash(path)
         IN  IF a.href = <<>> \/ HasPinPath(a.href) THEN ProfileFrom(Tail(links), f)
             ELSE IF /\ path # <<>>
                     /\ CountSlash(path) = 1
                     /\ maybe_user # <<>>
                     /\ ~LowerHas(maybe_user, Chars("ideas"))
                  THEN [f EXCEPT !.pinner_username = IF @ = <<>> THEN maybe_user ELSE @,
                                 !.pinner_profile_url = IF @ = <<>> THEN href ELSE @,
                                 !.pinner_fullname = IF @ = <<>> THEN Strip(a.text) ELSE @]
             ELSE ProfileFrom(Tail(links), f)

\* if not pinner_username or not pinner_profile_url: the profile links are read
DomProfile(f, links) ==
    IF f.pinner_username = <<>> \/ f.pinner_profile_url = <<>> THEN ProfileFrom(links, f) ELSE f

\* the for loop over the links to the site: the first link that is no pin
\* link and whose stripped path holds two slashes gives board_url, and
\* board_name when it is empty
RECURSIVE BoardFrom(_, _)
BoardFrom(links, f) ==
    IF links = <<>> THEN f
    ELSE LET a == Head(links)
         IN  IF HasPinPath(a.href) THEN BoardFrom(Tail(links), f)
             ELSE IF CountSlash(StripSlash(PathOf(a.href))) = 2
                  THEN [f EXCEPT !.board_url = a.href,
                                 !.board_name = IF @ = <<>> THEN Strip(a.text) ELSE @]
             ELSE BoardFrom(Tail(links), f)

\* if not board_url: the links to the site are read
DomBoard(f, links) == IF f.board_url = <<>> THEN BoardFrom(links, f) ELSE f

RelFlags == {Chars("nofollow"), Chars("noopener"), Chars("noreferrer")}

\* the for loop over the links that open a new window: the first with a
\* reference outside the site and a rel of RelFlags
RECURSIVE BlankFrom(_, _)
BlankFrom(links, f) ==
    IF links = <<>> THEN f
    ELSE LET a == Head(links)
         IN  IF a.href = <<>> \/ StartsAt(a.href, 1, Origin) THEN BlankFrom(Tail(links), f)
             ELSE IF \E flag \in RelFlags : HasSub(a.rel, flag)
                  THEN [f EXCEPT !.outbound_link = a.href]
             ELSE BlankFrom(Tail(links), f)

\* the outbound link: the visit button's reference, else the loop above
DomOutbound(f, visit, blanks) ==
    LET link == IF f.outbound_link = <<>> THEN visit ELSE f.outbound_link
    IN  IF link = <<>> THEN BlankFrom(blanks, f) ELSE [f EXCEPT !.outbound_link = link]

\* if not created_at: the first time element with a datetime gives it
RECURSIVE TimeFrom(_, _)
TimeFrom(times, f) ==
    IF times = <<>> THEN f
    ELSE IF Head(times).datetime # <<>> THEN [f EXCEPT !.created_at = Head(times).datetime]
    ELSE TimeFrom(Tail(times), f)

DomCreated(f, times) == IF f.created_at = <<>> THEN TimeFrom(times, f) ELSE f

\* what the pages show for counters and links: the texts of the three
\* save-counter reads and of the two comment-counter reads with what the
\* loops over them give (dom_save, dom_comment), the links, the visit button
\* and the time elements; a list is empty also when reading it raises (the
\* loops are inside a try)
TailPage(save_texts, comment_texts, profile_links, board_links, visit, blank_links, times) ==
    [save_texts |-> save_texts, comment_texts |-> comment_texts,
     profile_links |-> profile_links, board_links |-> board_links, visit |-> visit,
     blank_links |-> blank_links, times |-> times]

\* a page with what the two counter loops give on its texts
Counted(page) ==
    page @@ [dom_save |-> DomCount(page.save_texts, SaveWord),
             dom_comment |-> DomCount(page.comment_texts, CommentWord)]

NoSaveTexts == << <<>>, <<>>, <<>> >>
OneSaveText == << Chars("4.1K saves"), <<>>, <<>> >>
ThirdSaveText == << Chars("x save"), <<>>, <<"7", "\t">> \o Chars("saves") >>
NoCommentTexts == << <<>>, <<>> >>
SecondCommentText == << <<"x">>, Chars("7comment") >>

\* a save-counter text whose number, scaled, is beyond the largest double
LongSaveText == << Copies("4", NearInf) \o Chars("b saves"), <<>>, <<>> >>

ProfileLinks ==
    << Element(Chars("/pin/9/"), <<"p">>, <<>>),
       Element(Origin \o Chars("Ideas/"), <<"i">>, <<>>),
       Element(<<>>, <<"e">>, <<>>),
       Element(Origin \o Chars("u2/"), <<" ", "N">>, <<>>) >>

BoardLinks ==
    << Element(Origin \o Chars("pin/9/"), <<"p">>, <<>>),
       Element(Origin \o Chars("u/b/"), <<"b">>, <<>>),
       Element(Origin \o Chars("u/b/x/"), <<" ", "B", " ">>, <<>>) >>

\* a link to the site that does not start with Origin: the two slashes
\* after the scheme are all its stripped path holds
PlainSiteLinks == << Element(Chars("http://pinterest.com/"), <<"h">>, <<>>) >>

BlankLinks ==
    << Element(Origin \o <<"x">>, <<>>, Chars("nofollow")),
       Element(Chars("http://n"), <<>>, <<>>),
       Element(Chars("http://e"), <<>>, Chars("noopener noreferrer")) >>

ShownTails ==
    { TailPage(NoSaveTexts, NoCommentTexts, <<>>, <<>>, <<>>, <<>>, <<>>),
      TailPage(OneSaveText, NoCommentTexts,
               <<Element(Chars("/user1/"), <<"U">>, <<>>)>>, PlainSiteLinks, Chars("http://o"), <<>>,
               <<TimeElement(<<"2", "0", "2", "0">>)>>),
      TailPage(ThirdSaveText, SecondCommentText, ProfileLinks, BoardLinks, <<>>, BlankLinks,
               <<TimeElement(<<>>), TimeElement(<<"2", "1">>)>>),
      TailPage(NoSaveTexts, SecondCommentText, <<>>, <<>>, <<>>, <<>>, <<>>),
      TailPage(OneSaveText, SecondCommentText, <<>>, <<>>, <<>>, <<>>, <<>>),
      TailPage(ThirdSaveText, NoCommentTexts, <<>>, <<>>, <<>>, <<>>, <<>>),
      TailPage(LongSaveText, NoCommentTexts, <<>>, <<>>, <<>>, <<>>, <<>>) }

TailPages == { Counted(page) : page \in ShownTails }

\* stage 6, the counters and the links: the counter texts of the page fill
\* the counters still empty; the links, the visit button and the time
\* elements fill what is still empty of pinner, board, outbound link and
\* creation time. The texts are what retry_stale returned.
DetailDomCounts ==
    /\ dpc = "domcounts"
    /\ \E page \in TailPages :
         LET counted == [fields EXCEPT !.save_count = IF @ = <<>> THEN page.dom_save ELSE @,
                                       !.comment_count = IF @ = <<>> THEN page.dom_comment ELSE @]
         IN  /\ counted.save_count # OverflowError
             /\ counted.comment_count # OverflowError
             /\ fields' = DomCreated(DomOutbound(DomBoard(DomProfile(counted, page.profile_links),
                                                          page.board_links),
                                                 page.visit, page.blank_links),
                                     page.times)
    /\ dpc' = "normalize"
    /\ UNCHANGED <<pin_dict, supplied, tiers>>
    /\ UNCHANGED notDetail

\* stage 6 raises in the counters or at the visit button: an element read
\* through retry_stale outside any try (a counter element while that counter
\* is empty, the visit button while the outbound link is empty) stays stale
\* through every attempt
DetailDomCountsRaises ==
    /\ dpc = "domcounts"
    /\ fields.save_count = <<>> \/ fields.comment_count = <<>> \/ fields.outbound_link = <<>>
    /\ \E reads \in ReadHistories : retry_stale(reads) = Stale
    /\ dpc' = "raised"
    /\ UNCHANGED <<pin_dict, fields, supplied, tiers>>
    /\ UNCHANGED notDetail

\* stage 6 raises in parse_compact_number: the number of a counter text is
\* beyond the largest double and int() of it raises outside any try
DetailDomParseRaises ==
    /\ dpc = "domcounts"
    /\ \E page \in TailPages :
         \/ fields.save_count = <<>> /\ page.dom_save = OverflowError
         \/ fields.comment_count = <<>> /\ page.dom_comment = OverflowError
    /\ dpc' = "raised"
    /\ UNCHANGED <<pin_dict, fields, supplied, tiers>>
    /\ UNCHANGED notDetail

\* s.isdigit()
IsDigit(s) == s # <<>> /\ \A i \in 1..Len(s) : s[i] \in PyDigitChars

\* if count and not count.isdigit(): count = parse_compact_number(count);
\* OverflowError when that call raises
NormalizeCount(cnt) == IF cnt # <<>> /\ ~IsDigit(cnt) THEN parse_compact_number(cnt) ELSE cnt

\* the last stage: counters that are not all digits go through
\* parse_compact_number; the record is built
DetailNormalize ==
    /\ dpc = "normalize"
    /\ LET save_count == NormalizeCount(fields.save_count)
           comment_count == NormalizeCount(fields.comment_count)
       IN  /\ save_count # OverflowError
           /\ comment_count # OverflowError
           /\ fields' = [fields EXCEPT !.save_count = save_count, !.comment_count = comment_count]
    /\ dpc' = "frozen"
    /\ tiers' = Append(tiers, "Normalize")
    /\ UNCHANGED <<pin_dict, supplied>>
    /\ UNCHANGED notDetail

\* the last stage raises: the number of a counter text is beyond the largest
\* double and int() of it raises in parse_compact_number, outside any try;
\* no record is built
DetailNormalizeRaises ==
    /\ dpc = "normalize"
    /\ \/ NormalizeCount(fields.save_count) = OverflowError
       \/ NormalizeCount(fields.comment_count) = OverflowError
    /\ dpc' = "raised"
    /\ tiers' = Append(tiers, "Normalize")
    /\ UNCHANGED <<pin_dict, fields, supplied>>
    /\ UNCHANGED notDetail

NextDetail ==
    \/ DetailInline
    \/ DetailCaptureLog
    \/ DetailCaptureLogRaises
    \/ DetailSkipCaptureLog
    \/ DetailScripts
    \/ DetailSkipScripts
    \/ DetailBaseFields
    \/ DetailCloseup
    \/ DetailCloseupHuntRaises
    \/ DetailCloseupRaises
    \/ DetailDomFallback
    \/ DetailDomRaises
    \/ DetailDomCounts
    \/ DetailDomCountsRaises
    \/ DetailDomParseRaises
    \/ DetailNormalize
    \/ DetailNormalizeRaises

\* one resolution on its own
InitSpecDetail == InitDetail /\ IdleCrawl /\ IdleRun /\ IdleFind /\ IdleNum /\ IdleMerge /\ IdleHunt /\ IdleScripts

SpecDetail == InitSpecDetail /\ [][NextDetail]_vars

(***************************************************************************)
(* Claims about the record resolver                                        *)
(***************************************************************************)

\* C6: a field for which an earlier tier supplied a non-empty value is never
\* replaced or lost when a later tier contributes: the final record carries
\* the earliest tier's value for that field.
C6_EarliestTierWins ==
    dpc = "frozen" =>
        /\ supplied.title # <<>> => fields.title = supplied.title
        /\ supplied.description # <<>> => fields.description = supplied.description


(***************************************************************************)
(* Field merge                                                             *)
(***************************************************************************)

\* what an images map can hold under one size label: nothing, a full entry,
\* an entry without URL, an entry with a URL only, or null; the texts of an
\* entry name its label
TierOptions(key, digit) ==
    { <<>>,
      << <<key, JMap(<< <<Chars("url"), JStr(<<"u", digit>>)>>, <<Chars("width"), JInt(<<digit>>)>>,
                        <<Chars("height"), JInt(<<digit, "0">>)>> >>)>> >>,
      << <<key, JMap(<< <<Chars("width"), JInt(<<digit>>)>>, <<Chars("height"), JInt(<<digit, "0">>)>> >>)>> >>,
      << <<key, JMap(<< <<Chars("url"), JStr(<<"u", digit>>)>> >>)>> >>,
      << <<key, JNull>> >> }

ImageMaps ==
    { JMap(a \o b) : a \in TierOptions(Chars("orig"), "1"), b \in TierOptions(Chars("564x"), "2") }
        \cup { JMap(a \o b) : a \in TierOptions(Chars("474x"), "3") \ {<<>>}, b \in TierOptions(Chars("236x"), "4") \ {<<>>} }

ImageEntries == { <<>> } \cup { << <<Chars("images"), m>> >> : m \in ImageMaps }

OtherEntries ==
    { <<>>,
      << <<Chars("title"), JStr(<<"T">>)>> >>,
      << <<Chars("pinner"), JMap(<< <<Chars("username"), JStr(<<"a">>)>> >>)>> >>,
      << <<Chars("pinner"), JMap(<< <<Chars("full_name"), JStr(<<"F">>)>> >>)>> >>,
      << <<Chars("repinCount"), JInt(<<"5">>)>> >>,
      << <<Chars("aggregatedPinData"), JMap(<< <<Chars("saveCount"), JInt(<<"7">>)>>, <<Chars("commentCount"), JInt(<<"2">>)>> >>)>> >>,
      << <<Chars("board"), JMap(<< <<Chars("name"), JStr(<<"N">>)>> >>)>> >>,
      << <<Chars("board"), JMap(<< <<Chars("owner"), JMap(<< <<Chars("username"), JStr(<<"o">>)>> >>)>>,
                            <<Chars("slug"), JStr(<<"s">>)>> >>)>> >>,
      << <<Chars("link"), JStr(<<"L">>)>> >> }

\* the source mappings merged
SourceDicts == { JMap(<< <<Chars("id"), JStr(<<"1">>)>> >> \o o \o i) : o \in OtherEntries, i \in ImageEntries }

InitMerge ==
    /\ m_a \in SourceDicts
    /\ m_b \in SourceDicts
    /\ m_base = EmptyFields
    /\ m_one = EmptyFields
    /\ m_ab = EmptyFields
    /\ m_ba = EmptyFields
    /\ mpc = "call"

\* the base fields of m_a, and the merges of m_a and m_b in both orders
MergeSources ==
    /\ mpc = "call"
    /\ m_base' = BaseFields(m_a)
    /\ m_one' = enrich_from_closeup_data(m_a, EmptyFields)
    /\ m_ab' = enrich_from_closeup_data(m_b, m_one')
    /\ m_ba' = enrich_from_closeup_data(m_a, enrich_from_closeup_data(m_b, EmptyFields))
    /\ mpc' = "done"
    /\ UNCHANGED <<m_a, m_b>>
    /\ UNCHANGED notMerge

NextMerge == MergeSources

InitSpecMerge == InitMerge /\ IdleCrawl /\ IdleRun /\ IdleFind /\ IdleNum /\ IdleDetail /\ IdleHunt /\ IdleScripts

SpecMerge == InitSpecMerge /\ [][NextMerge]_vars

(***************************************************************************)
(* Claims about the field merge                                            *)
(***************************************************************************)

\* the size tiers an images map exposes
TiersOf(src) ==
    IF IsMap(Get(src, Chars("images")))
    THEN { Get(Get(src, Chars("images")), SizeKeys[k]) : k \in { j \in 1..Len(SizeKeys) : IsMap(Get(Get(src, Chars("images")), SizeKeys[j])) } }
    ELSE {}

\* the image URL of rec comes from a tier of src, and its width and height,
\* where set, come from that same tier
ImageFromOneTier(rec, src) ==
    rec.image_url # <<>> =>
        \E d \in TiersOf(src) :
            /\ Truthy(Get(d, Chars("url"))) /\ rec.image_url = PyStr(Get(d, Chars("url")))
            /\ rec.image_width # <<>> => (Truthy(Get(d, Chars("width"))) /\ rec.image_width = PyStr(Get(d, Chars("width"))))
            /\ rec.image_height # <<>> => (Truthy(Get(d, Chars("height"))) /\ rec.image_height = PyStr(Get(d, Chars("height"))))

\* C11: when an images map exposes several size tiers, the image URL, width
\* and height of the record all come from one and the same tier, both in the
\* base fields and in the closeup merge.
C11_ImageFromOneTier ==
    mpc = "done" => (ImageFromOneTier(m_base, m_a) /\ ImageFromOneTier(m_one, m_a))


(***************************************************************************)
(* Record resolver of pinterest_scraper_rich.py                            *)
(***************************************************************************)

\* title = str(pin.get("grid_title")) or str(pin.get("title") or ""): the
\* first str() is taken of the looked-up value itself, None included
RichTitle(pin) ==
    IF PyStr(Get(pin, Chars("grid_title"))) # <<>> THEN PyStr(Get(pin, Chars("grid_title")))
    ELSE PyStr(PyOr(Get(pin, Chars("title")), JStr(<<>>)))

\* the image loop of this variant: each tier's entry replaces all three texts
RECURSIVE RichImagesFrom(_, _, _)
RichImagesFrom(images, keys, img) ==
    IF keys = <<>> THEN img
    ELSE LET d == Get(images, Head(keys))
         IN  IF IsMap(d)
             THEN LET now == [image_url |-> PyStr(PyOr(Get(d, Chars("url")), JStr(<<>>))),
                              image_width |-> PyStr(PyOr(Get(d, Chars("width")), JStr(<<>>))),
                              image_height |-> PyStr(PyOr(Get(d, Chars("height")), JStr(<<>>)))]
                  IN  IF now.image_url # <<>> THEN now
                      ELSE RichImagesFrom(images, Tail(keys), now)
             ELSE RichImagesFrom(images, Tail(keys), img)

RichCountKeys ==
    <<Chars("saveCount"), Chars("aggregated_pin_data"), Chars("aggregatedStats"), Chars("counts"), Chars("stats")>>

\* the fields this variant reads from the inline mapping
RichBaseFields(pin) ==
    LET none == [image_url |-> <<>>, image_width |-> <<>>, image_height |-> <<>>]
        images == Get(pin, Chars("images"))
        img == IF IsMap(images) THEN RichImagesFrom(images, SizeKeys, none) ELSE none
        cnt == BaseCountsFrom(pin, RichCountKeys, [save_count |-> <<>>, comment_count |-> <<>>])
        pinner == Get(pin, Chars("pinner"))
        board == Get(pin, Chars("board"))
        username == IF IsMap(pinner) THEN PyStr(PyOr(Get(pinner, Chars("username")), JStr(<<>>))) ELSE <<>>
    IN  [title |-> RichTitle(pin),
         description |-> PyStr(PyOr(Get(pin, Chars("description")), JStr(<<>>))),
         created_at |-> PyStr(PyOr(Get(pin, Chars("created_at")), PyOr(Get(pin, Chars("createdAt")), JStr(<<>>)))),
         image_url |-> img.image_url,
         image_width |-> img.image_width,
         image_height |-> img.image_height,
         save_count |-> IF cnt.save_count # <<>> THEN cnt.save_count
                        ELSE PyStr(PyOr(Get(pin, Chars("saveCount")), JStr(<<>>))),
         comment_count |-> IF cnt.comment_count # <<>> THEN cnt.comment_count
                           ELSE PyStr(PyOr(Get(pin, Chars("commentCount")), JStr(<<>>))),
         pinner_username |-> username,
         pinner_fullname |-> IF IsMap(pinner)
                             THEN PyStr(PyOr(Get(pinner, Chars("full_name")),
                                             PyOr(Get(pinner, Chars("fullName")), JStr(<<>>))))
                             ELSE <<>>,
         pinner_profile_url |-> IF username # <<>> THEN ProfileUrl(username) ELSE <<>>,
         board_name |-> IF IsMap(board) THEN PyStr(PyOr(Get(board, Chars("name")), JStr(<<>>))) ELSE <<>>,
         board_url |-> IF IsMap(board) THEN BaseBoardUrl(board) ELSE <<>>,
         outbound_link |-> PyStr(PyOr(Get(pin, Chars("link")), PyOr(Get(pin, Chars("dominant_link")), JStr(<<>>))))]

\* the mapping found in the embedded data script, if any
RichInline ==
    /\ dpc = "inline"
    /\ \E pin_candidate \in { d \in PageDicts : PinLike(d) } \cup {NoMatch} :
         /\ pin_dict' = IF IsMap(pin_candidate) THEN pin_candidate ELSE pin_dict
         /\ supplied' = IF IsMap(pin_candidate)
                        THEN NoteSupplied(supplied, BaseTitle(pin_candidate),
                                          BaseDescription(pin_candidate))
                        ELSE supplied
    /\ dpc' = "base"
    /\ UNCHANGED fields
    /\ UNCHANGED tiers
    /\ UNCHANGED notDetail

\* the fields are read from the mapping
RichExtract ==
    /\ dpc = "base"
    /\ fields' = RichBaseFields(pin_dict)
    /\ dpc' = "dom"
    /\ UNCHANGED <<pin_dict, supplied>>
    /\ UNCHANGED tiers
    /\ UNCHANGED notDetail

\* meta tags fill the title, description and image address still empty, the
\* first img element the image texts still empty; the record is built
RichMetaFallback ==
    /\ dpc = "dom"
    /\ \E dom_title \in DomTexts, page \in HeadPages :
         /\ fields' = DomImage([fields EXCEPT
                                  !.title = IF @ = <<>> THEN dom_title ELSE @,
                                  !.description = IF @ = <<>> THEN page.dom_description ELSE @],
                               page.og_image, page.img)
         /\ supplied' = NoteSupplied(supplied, dom_title, page.dom_description)
    /\ dpc' = "frozen"
    /\ UNCHANGED pin_dict
    /\ UNCHANGED tiers
    /\ UNCHANGED notDetail

NextRich ==
    \/ RichInline
    \/ RichExtract
    \/ RichMetaFallback

InitSpecRich == InitDetail /\ IdleCrawl /\ IdleRun /\ IdleFind /\ IdleNum /\ IdleMerge /\ IdleHunt /\ IdleScripts

SpecRich == InitSpecRich /\ [][NextRich]_vars

(***************************************************************************)
(* Claims about the returned record                                        *)
(***************************************************************************)

\* C12: in the record returned, a field for which no channel supplied a
\* value is exactly the empty text, never a placeholder such as "None"
\* (every field of the record is a text by construction).
C12_UnsuppliedIsEmpty ==
    dpc = "frozen" =>
        /\ supplied.title = <<>> => fields.title = <<>>
        /\ supplied.description = <<>> => fields.description = <<>>


\* C13: once navigation has returned, scrape_pin_detail always returns a
\* record: an absent or stale element, also one that stays stale on every
\* read attempt, contributes the empty text and no failure propagates.
C13_AlwaysReturnsRecord == dpc # "raised"


(***************************************************************************)
(* Claims about failures and progress of the run                           *)
(***************************************************************************)

\* the references of the current listing pass not yet attempted
Remaining == IF rpc = "resolve" THEN Len(pin_urls) - pin_i ELSE 0

\* C14: when resolving one page raises, the failure is logged, no record is
\* appended and the records accumulated stay as they are, and the run goes
\* on: every reference the listing passes returned is attempted, whatever
\* failed before it.
C14_FailureSkipsOnePage ==
    /\ [](Len(rows) + Len(failed_log) + Remaining = listed)
    /\ [][failed_log' # failed_log =>
            /\ failed_log' = Append(failed_log, pin_urls[pin_i + 1])
            /\ rows' = rows
            /\ rpc' = "resolve"
            /\ pin_i' = pin_i + 1]_vars

\* the first keyword's only page failed, the second keyword's page was resolved
C14_Witness ==
    /\ rpc = "done"
    /\ Len(work_df) = 2
    /\ work_df[1].limit = 1 /\ work_df[2].limit = 1
    /\ failed_log = << PinSegment \o <<"1">> >>
    /\ Len(rows) = 1
    /\ rows[1].keyword = KeywordAt(2)
    /\ rows[1].pin_url = PinSegment \o <<"2">>

\* C15: when the run fails after records were accumulated, the records
\* gathered before the failure are still exposed as the output table.
C15_PartialResultsExposed == (rpc = "failed" /\ rows # <<>>) => out_df = drop_duplicates(rows)

\* a <= b for fractions with positive denominators
FracLeq(a, b) == a[1] * b[2] <= b[1] * a[2]

\* C16: the fractions given to the progress indicator never decrease, each
\* lies in [0, 1], and the last one of a run that completes is 1.
C16_ProgressMonotone ==
    /\ \A j \in 1..Len(emitted) : emitted[j][2] > 0 /\ 0 <= emitted[j][1] /\ emitted[j][1] <= emitted[j][2]
    /\ \A j \in 1..(Len(emitted) - 1) : FracLeq(emitted[j], emitted[j + 1])
    /\ rpc = "done" => emitted[Len(emitted)][1] = emitted[Len(emitted)][2]

\* a completed run whose first keyword yields no reference and whose second yields two
C16_Witness ==
    /\ rpc = "done"
    /\ Len(work_df) = 2
    /\ emitted = << <<0, 1>>, <<3, 4>>, <<4, 4>>, <<1, 1>> >>


(***************************************************************************)
(* Claims about the order of merges                                        *)
(***************************************************************************)

\* the fields a source fills when merged into the empty field-set
Provided(src) == { f \in FieldNames : enrich_from_closeup_data(src, EmptyFields)[f] # <<>> }

\* C17: when the second source provides values only for fields the first
\* leaves empty, merging the first then the second into the empty field-set
\* gives the same field-set as merging them in the reverse order.
C17_MergeOrderIrrelevant ==
    (mpc = "done" /\ Provided(m_a) \cap Provided(m_b) = {}) => m_ab = m_ba

(***************************************************************************)
(* Claims about the collected list and the idle counter                    *)
(***************************************************************************)

\* C18: at every point of a listing pass with target N >= 1 the collected
\* list holds no reference twice, its elements are exactly the seen-set, its
\* length is at most N, and a step never removes or reorders what it holds:
\* the list before the step is a prefix of the list after it.
C18_CollectedListInvariant ==
    /\ [](limit_n >= 1 =>
            /\ \A i, j \in 1..Len(collected) : collected[i] = collected[j] => i = j
            /\ SeqToSet(collected) = seen
            /\ Len(collected) <= limit_n)
    /\ [][limit_n >= 1 =>
            /\ Len(collected) <= Len(collected')
            /\ collected = SubSeq(collected', 1, Len(collected))]_vars

C18_Witness ==
    /\ cpc = "done"
    /\ limit_n = MaxLimit
    /\ Len(collected) = limit_n
    /\ iters >= 2
    /\ last_growth = iters

\* C19: the idle counter is the number of loop bodies run since the one that
\* last added a reference and lies in 0..6; a pass that returns fewer than N
\* references ran at least 6 loop bodies after the last one that added a
\* reference; a pass below its target never returns with the counter under 6,
\* and a loop body that adds a reference after 1 to 5 idle ones sets the
\* counter to 0 and leaves the loop running.
C19_IdleCounterCountsStall ==
    /\ [](/\ no_growth = iters - last_growth
          /\ no_growth \in 0..IdleLimit)
    /\ []((cpc = "done" /\ limit_n >= 1 /\ Len(result) < limit_n) =>
            /\ iters >= IdleLimit
            /\ last_growth <= iters - IdleLimit)
    /\ []((cpc = "done" /\ Len(collected) < limit_n) => no_growth = IdleLimit)
    /\ [][(no_growth \in 1..(IdleLimit - 1) /\ collected' # collected) =>
            (no_growth' = 0 /\ cpc' = "scroll")]_vars

C19_Witness ==
    /\ cpc = "done"
    /\ limit_n = 1
    /\ Len(result) = 1
    /\ iters = IdleLimit
    /\ last_growth = IdleLimit

(***************************************************************************)
(* Listing crawler of pinterest_scraper.py (gather_for_keyword)            *)
(***************************************************************************)

\* extract_pin_items_from_view: the items of the anchors whose href is not
\* empty, holds "/pin/" and is not in seen_urls; an item is written as its
\* pin_url, the href as the anchor carries it
RECURSIVE extract_pin_items_from_view(_, _)
extract_pin_items_from_view(anchors, seen_urls) ==
    IF anchors = <<>> THEN <<>>
    ELSE LET href == Head(anchors)
             rest == extract_pin_items_from_view(Tail(anchors), seen_urls)
         IN  IF href = <<>> \/ ~HasPinPath(href) THEN rest
             ELSE IF href \in seen_urls THEN rest
             ELSE <<href>> \o rest

\* one pass through the loop body of gather_for_keyword up to the scroll call
GatherIterate ==
    /\ cpc = "test"
    /\ LoopCond(collected, no_growth, limit_n)
    /\ \E view \in Views :
         LET batch == extract_pin_items_from_view(view, seen)
             after == AppendBatch(collected, seen, batch, limit_n)
         IN  /\ collected' = after.c
             /\ seen' = after.s
             /\ no_growth' = IdleUpdate(no_growth, Len(collected), Len(after.c))
             /\ firstSeen' = NoteRendered(firstSeen, view)
             /\ last_growth' = IF after.c # collected THEN iters + 1 ELSE last_growth
    /\ iters' = iters + 1
    /\ cpc' = "scroll"
    /\ UNCHANGED <<limit_n, scrolls, result>>
    /\ UNCHANGED notCrawl

\* scroll_results at the end of the loop body of gather_for_keyword
GatherScroll ==
    /\ cpc = "scroll"
    /\ scrolls' = scrolls + 1
    /\ cpc' = "test"
    /\ UNCHANGED <<limit_n, collected, seen, no_growth, iters, firstSeen, last_growth, result>>
    /\ UNCHANGED notCrawl

\* the loop condition of gather_for_keyword fails: return collected[:limit_n]
GatherReturn ==
    /\ cpc = "test"
    /\ ~LoopCond(collected, no_growth, limit_n)
    /\ result' = PySliceTo(collected, limit_n)
    /\ cpc' = "done"
    /\ UNCHANGED <<limit_n, collected, seen, no_growth, iters, scrolls, firstSeen, last_growth>>
    /\ UNCHANGED notCrawl

NextGather == GatherIterate \/ GatherScroll \/ GatherReturn

InitSpecGather == InitCrawl /\ IdleRun /\ IdleFind /\ IdleNum /\ IdleDetail /\ IdleMerge /\ IdleHunt /\ IdleScripts

\* a listing pass of pinterest_scraper.py on its own
SpecGather == InitSpecGather /\ [][NextGather]_vars

(***************************************************************************)
(* Claims about the normal form of the returned references                 *)
(***************************************************************************)

\* the reference holds neither "?" nor "#"
IsNormalized(href) == \A i \in 1..Len(href) : href[i] \notin {"?", "#"}

\* C20: every reference a listing pass returns holds neither a query string
\* ("?") nor a fragment ("#"), and no two returned references have the same
\* normalised form; stated for the pass of every listing crawler.
C20_ReturnedReferencesNormalized ==
    cpc = "done" =>
        /\ \A i \in 1..Len(result) : IsNormalized(result[i])
        /\ \A i, j \in 1..Len(result) :
             NormalizeHref(result[i]) = NormalizeHref(result[j]) => i = j

(***************************************************************************)
(* Claims about the order and the entry of the tiers                       *)
(***************************************************************************)

\* the place of a tier in the fixed order
TierOrder ==
    <<"InlineJSON", "CaptureLog", "ScriptBruteForce", "CloseupEnrichment", "DOMFallback", "Normalize">>

TierRank(t) == CHOOSE i \in 1..Len(TierOrder) : TierOrder[i] = t

\* the candidate carries none of pinner, board and images
LacksRelations(d) == ~HasKey(d, Chars("pinner")) /\ ~HasKey(d, Chars("board")) /\ ~HasKey(d, Chars("images"))

\* C21: the tiers of scrape_pin_detail are entered in the order InlineJSON,
\* CaptureLog, ScriptBruteForce, CloseupEnrichment, DOMFallback, Normalize,
\* a returned record has gone through the four tiers that are not
\* conditional, and a step enters the CaptureLog or the ScriptBruteForce tier
\* only from a candidate that carries none of pinner, board and images, so
\* never from a candidate that carries all three.
C21_TierOrderAndEntry ==
    /\ [](\A i, j \in 1..Len(tiers) : i < j => TierRank(tiers[i]) < TierRank(tiers[j]))
    /\ [](dpc = "frozen" =>
            {"InlineJSON", "CloseupEnrichment", "DOMFallback", "Normalize"} \subseteq SeqToSet(tiers))
    /\ [][(Len(tiers') = Len(tiers) + 1
             /\ tiers'[Len(tiers')] \in {"CaptureLog", "ScriptBruteForce"})
            => LacksRelations(pin_dict)]_vars

C21_Witness ==
    /\ dpc = "frozen"
    /\ tiers = TierOrder
    /\ HasKey(pin_dict, Chars("pinner"))

\* the decimal digits only
IsDecimalText(s) == \A i \in 1..Len(s) : s[i] \in DigitChars

\* C26: in every record returned by scrape_pin_detail, save_count and
\* comment_count are each the empty text or a text of decimal digits only.
C26_CountersAreDigitTexts ==
    dpc = "frozen" => (IsDecimalText(fields.save_count) /\ IsDecimalText(fields.comment_count))

(***************************************************************************)
(* Capture-log miner: hunt_json_in_cdp_logs, as scrape_pin_detail calls it *)
(* in stage 2 and again through get_closeup_data_from_any                  *)
(***************************************************************************)

\* d.get(key, {})
GetOrEmpty(d, key) == IF HasKey(d, key) THEN Get(d, key) ELSE EmptyMap

\* cur.get("response", {}).get("data", {}).get("v3GetPinQuery", {}).get("data");
\* NoMatch also when a .get meets a value that is not a mapping (the
\* exception is swallowed)
CloseupAnswer(cur) ==
    LET response == GetOrEmpty(cur, Chars("response"))
        data == IF IsMap(response) THEN GetOrEmpty(response, Chars("data")) ELSE NoMatch
        query == IF IsMap(data) THEN GetOrEmpty(data, Chars("v3GetPinQuery")) ELSE NoMatch
    IN  IF IsMap(query) THEN Get(query, Chars("data")) ELSE NoMatch

\* cur carries requestParameters, a mapping whose name is "CloseupDetailQuery"
IsCloseupShape(cur) ==
    /\ IsMap(cur)
    /\ HasKey(cur, Chars("requestParameters"))
    /\ IsMap(Get(cur, Chars("requestParameters")))
    /\ Get(Get(cur, Chars("requestParameters")), Chars("name")) = JStr(Chars("CloseupDetailQuery"))

\* the walk of _extract_closeup_from_json; stack.pop() takes the last element
RECURSIVE CloseupLoop(_)
CloseupLoop(stack) ==
    IF stack = <<>> THEN NoMatch
    ELSE LET cur == stack[Len(stack)]
             rest == SubSeq(stack, 1, Len(stack) - 1)
         IN  IF IsCloseupShape(cur) /\ IsMap(CloseupAnswer(cur)) THEN CloseupAnswer(cur)
             ELSE CloseupLoop(rest \o Pushed(cur))

\* _extract_closeup_from_json: the payload itself, else the walk
extract_closeup_from_json(obj) ==
    IF IsCloseupShape(obj) /\ IsMap(CloseupAnswer(obj)) THEN CloseupAnswer(obj)
    ELSE CloseupLoop(<<obj>>)

\* the window of the for loop: logs[-600:]
LogWindow == 600

\* variant: the whole log
WindowStartWholeLog(n) == 1

\* index of the oldest entry of logs[-600:] in a log of n entries
WindowStart(n) == Max(1, n - LogWindow + 1)

\* "json" in mime.lower()
HasJson(mime) == LowerHas(mime, Chars("json"))

\* the test of a generic candidate against the identifier, left out
HintAcceptsAny(cand, pin_id) == TRUE

\* not pin_id or str(cand.get("id")) == pin_id
HintAccepts(cand, pin_id) == pin_id = <<>> \/ PyStr(Get(cand, Chars("id"))) = pin_id

\* what the loop body does with one entry:
\*   step  "skip" (continue), "raise" (an exception leaves the function) or
\*         "return"
\*   fetch whether _cdp_get_body_text was called
\*   res, kind  the value returned and how it was found
EntryOutcome(e, pin_id) ==
    LET skip(f) == [step |-> "skip", fetch |-> f, res |-> NoMatch, kind |-> "none"]
        closeup == extract_closeup_from_json(e.data)
        cand == find_first_pin_like_dict(e.data, pin_id)
    IN  IF e.form = "notjson" THEN skip(FALSE)
        ELSE IF e.form = "nullmessage"
             THEN [step |-> "raise", fetch |-> FALSE, res |-> NoMatch, kind |-> "none"]
        ELSE IF e.method # "Network.responseReceived" THEN skip(FALSE)
        ELSE IF ~HasJson(e.mime) THEN skip(FALSE)
        ELSE IF e.req_id = <<>> THEN skip(FALSE)
        ELSE IF e.body # "json" THEN skip(TRUE)
        ELSE IF IsMap(closeup)
             THEN [step |-> "return", fetch |-> TRUE, res |-> closeup, kind |-> "closeup"]
        ELSE IF IsMap(cand) /\ HintAccepts(cand, pin_id)
             THEN [step |-> "return", fetch |-> TRUE, res |-> cand, kind |-> "generic"]
        ELSE skip(TRUE)

\* ---- the entries of the logs ----

\* form    "ok", "notjson" (the message is not JSON, or not a mapping) or
\*         "nullmessage" (the message of the message is null)
\* body    what fetching the body gives: "json" (a JSON text, parsed to data),
\*         "raises", "plain" (a text that starts with neither "{" nor "[") or
\*         "broken" (starts with "{" but does not parse)
Entry(form, method, mime, req_id, body, data) ==
    [form |-> form, method |-> method, mime |-> mime, req_id |-> req_id, body |-> body, data |-> data]

JsonMime == Chars("application/json")

Response(req_id, body, data) == Entry("ok", "Network.responseReceived", JsonMime, req_id, body, data)

\* a detail-query payload whose nested answer is answer
CloseupPayload(answer) ==
    JMap(<< <<Chars("requestParameters"), JMap(<< <<Chars("name"), JStr(Chars("CloseupDetailQuery"))>> >>)>>,
            <<Chars("response"), JMap(<< <<Chars("data"),
                JMap(<< <<Chars("v3GetPinQuery"), JMap(<< <<Chars("data"), answer>> >>)>> >>)>> >>)>> >>)

\* an entity-like mapping with the identifier given
Generic(id) == JMap(<< <<Chars("id"), id>>, <<Chars("title"), JStr(<<"G">>)>> >>)

DetailAnswer == JMap(<< <<Chars("id"), JStr(<<"1">>)>>, <<Chars("gridTitle"), JStr(<<"C">>)>> >>)

Filler == Entry("ok", "Network.requestWillBeSent", <<>>, <<"r", "0">>, "json", EmptyMap)

EntryPool ==
    { Filler,
      Entry("notjson", "", <<>>, <<>>, "json", EmptyMap),
      Entry("nullmessage", "", <<>>, <<>>, "json", EmptyMap),
      Entry("ok", "Network.responseReceived", Chars("text/html"), <<"r", "1">>, "json",
            CloseupPayload(DetailAnswer)),
      Entry("ok", "Network.responseReceived", Chars("Application/JSON"), <<"r", "2">>, "json",
            Generic(JInt(<<"1">>))),
      Response(<<>>, "json", Generic(JStr(<<"1">>))),
      Response(<<"r", "3">>, "raises", EmptyMap),
      Response(<<"r", "4">>, "plain", EmptyMap),
      Response(<<"r", "5">>, "broken", EmptyMap),
      Response(<<"r", "6">>, "json", Generic(JStr(<<"1">>))),
      Response(<<"r", "7">>, "json", Generic(JStr(<<"2">>))),
      Response(<<"r", "8">>, "json", CloseupPayload(DetailAnswer)),
      Response(<<"r", "9">>, "json",
               JList(<<Generic(JStr(<<"1">>)), CloseupPayload(DetailAnswer)>>)),
      Response(<<"r", "1", "0">>, "json", JMap(<< <<<<"x">>, JInt(<<"1">>)>> >>)) }

\* longest log made of entries of the pool
MaxLog == 2

\* n copies of e

\* logs longer than the window: a response that yields a match, then
\* LogWindow - 1 or LogWindow entries without a body, then a newer entry or none
LongLogs ==
    { <<old>> \o Copies(Filler, n) \o recent :
        old \in { Response(<<"r", "6">>, "json", Generic(JStr(<<"1">>))) },
        n \in { LogWindow - 1, LogWindow },
        recent \in { <<>>, <<Response(<<"r", "1", "0">>, "json", JMap(<< <<<<"x">>, JInt(<<"1">>)>> >>))>> } }

Logs == SeqsUpTo(EntryPool, MaxLog) \cup LongLogs

InitHunt ==
    /\ h_logs \in Logs
    /\ h_readable \in BOOLEAN
    /\ h_hint \in { <<>>, <<"1">> }
    /\ h_call \in {1, 2}
    /\ h_pos = 0
    /\ h_fetched = <<>>
    /\ h_res = NoMatch
    /\ h_kind = "none"
    /\ h_ret = 0
    /\ hpc = "call"

\* the identifier the current call was given
CallHint == IF h_call = 1 THEN h_hint ELSE <<>>

\* driver.get_log("performance") gives the entries
HuntReadLog ==
    /\ hpc = "call"
    /\ h_readable
    /\ h_pos' = Len(h_logs)
    /\ hpc' = "scan"
    /\ UNCHANGED <<h_logs, h_readable, h_hint, h_call, h_fetched, h_res, h_kind, h_ret>>
    /\ UNCHANGED notHunt

\* driver.get_log raises: return None
HuntLogUnavailable ==
    /\ hpc = "call"
    /\ ~h_readable
    /\ h_res' = NoMatch
    /\ h_kind' = "none"
    /\ hpc' = "returned"
    /\ UNCHANGED <<h_logs, h_readable, h_hint, h_call, h_pos, h_fetched, h_ret>>
    /\ UNCHANGED notHunt

\* one pass through the body of the for loop over reversed(logs[-600:])
HuntEntry ==
    /\ hpc = "scan"
    /\ h_pos >= WindowStart(Len(h_logs))
    /\ LET o == EntryOutcome(h_logs[h_pos], CallHint)
       IN  /\ h_fetched' = IF o.fetch THEN Append(h_fetched, <<h_call, h_pos>>) ELSE h_fetched
           /\ h_res' = o.res
           /\ h_kind' = o.kind
           /\ h_ret' = IF o.step = "return" THEN h_pos ELSE h_ret
           /\ h_pos' = IF o.step = "skip" THEN h_pos - 1 ELSE h_pos
           /\ hpc' = IF o.step = "skip" THEN "scan"
                     ELSE IF o.step = "return" THEN "returned"
                     ELSE "raised"
    /\ UNCHANGED <<h_logs, h_readable, h_hint, h_call>>
    /\ UNCHANGED notHunt

\* the for loop is exhausted: return None
HuntExhausted ==
    /\ hpc = "scan"
    /\ h_pos < WindowStart(Len(h_logs))
    /\ h_res' = NoMatch
    /\ h_kind' = "none"
    /\ hpc' = "returned"
    /\ UNCHANGED <<h_logs, h_readable, h_hint, h_call, h_pos, h_fetched, h_ret>>
    /\ UNCHANGED notHunt

\* after stage 2, get_closeup_data_from_any calls hunt_json_in_cdp_logs again,
\* with pin_id ""; the driver gives the same entries again, or none when it
\* hands every entry out only once
HuntCloseupCall ==
    /\ hpc = "returned"
    /\ h_call = 1
    /\ h_call' = 2
    /\ h_logs' \in { h_logs, <<>> }
    /\ h_pos' = 0
    /\ h_res' = NoMatch
    /\ h_kind' = "none"
    /\ h_ret' = 0
    /\ hpc' = "call"
    /\ UNCHANGED <<h_readable, h_hint, h_fetched>>
    /\ UNCHANGED notHunt

NextHunt ==
    \/ HuntReadLog
    \/ HuntLogUnavailable
    \/ HuntEntry
    \/ HuntExhausted
    \/ HuntCloseupCall

InitSpecHunt == InitHunt /\ IdleCrawl /\ IdleRun /\ IdleFind /\ IdleNum /\ IdleDetail /\ IdleMerge /\ IdleScripts

\* the capture-log reads of one resolution on their own
SpecHunt == InitSpecHunt /\ [][NextHunt]_vars

(***************************************************************************)
(* Claims about the capture-log miner                                      *)
(***************************************************************************)

\* the entries whose body the current call fetched, in the order of the fetches
FetchedNow == SelectSeq(h_fetched, LAMBDA f : f[1] = h_call)

\* the entry is a Network.responseReceived event with a JSON mime type and a
\* request id
Fetchable(e) ==
    /\ e.form = "ok"
    /\ e.method = "Network.responseReceived"
    /\ HasJson(e.mime)
    /\ e.req_id # <<>>

\* the entry's body parses to a payload that yields a match for the identifier
Yields(e, pin_id) ==
    /\ Fetchable(e)
    /\ e.body = "json"
    /\ \/ IsMap(extract_closeup_from_json(e.data))
       \/ /\ IsMap(find_first_pin_like_dict(e.data, pin_id))
          /\ (pin_id = <<>> \/ PyStr(Get(find_first_pin_like_dict(e.data, pin_id), Chars("id"))) = pin_id)

\* C22: the payload get_closeup_data_from_any takes from the capture log for
\* the CloseupEnrichment stage is the nested answer of a detail-query shaped
\* payload, never a generic entity-like mapping.
C22_CloseupIsDetailQueryAnswer ==
    (h_call = 2 /\ hpc = "returned" /\ IsMap(h_res)) => h_kind = "closeup"

\* C24: a call of hunt_json_in_cdp_logs fetches bodies only of entries among
\* the 600 most recent that are Network.responseReceived events with a JSON
\* mime type and a request id, in strictly reverse chronological order; what
\* it returns is the match of the most recent entry of the window that yields
\* one, the detail-query answer when the payload has one, and no body of an
\* older entry is fetched.
C24_NewestMatchInWindow ==
    /\ \A k \in 1..Len(FetchedNow) :
         /\ FetchedNow[k][2] > Len(h_logs) - LogWindow
         /\ Fetchable(h_logs[FetchedNow[k][2]])
         /\ \A l \in (k + 1)..Len(FetchedNow) : FetchedNow[l][2] < FetchedNow[k][2]
    /\ (hpc = "returned" /\ h_ret > 0) =>
         /\ Yields(h_logs[h_ret], CallHint)
         /\ IF IsMap(extract_closeup_from_json(h_logs[h_ret].data))
            THEN h_res = extract_closeup_from_json(h_logs[h_ret].data)
            ELSE h_res = find_first_pin_like_dict(h_logs[h_ret].data, CallHint)
         /\ \A j \in (h_ret + 1)..Len(h_logs) : ~Yields(h_logs[j], CallHint)
         /\ \A k \in 1..Len(FetchedNow) : FetchedNow[k][2] >= h_ret
    /\ (hpc = "returned" /\ h_ret = 0) =>
         /\ h_res = NoMatch
         /\ h_readable =>
              \A j \in 1..Len(h_logs) : j > Len(h_logs) - LogWindow => ~Yields(h_logs[j], CallHint)

C24_Witness ==
    /\ hpc = "returned"
    /\ h_call = 1
    /\ Len(h_logs) = LogWindow + 2
    /\ Yields(h_logs[1], CallHint)
    /\ h_fetched = << <<1, LogWindow + 2>> >>
    /\ h_res = NoMatch

\* C25: hunt_json_in_cdp_logs never raises, and when the capture log cannot
\* be read it fetches no body and returns None.
C25_NeverRaises ==
    /\ hpc # "raised"
    /\ ~h_readable => (h_fetched = <<>> /\ (hpc = "returned" => h_res = NoMatch))

\* C28: within one resolution no entry of the capture log has its body
\* fetched twice, the call of stage 2 and the call of the CloseupEnrichment
\* stage taken together.
C28_BodyFetchedOnce ==
    \A k, l \in 1..Len(h_fetched) : h_fetched[k][2] = h_fetched[l][2] => k = l

\* C29: called with a non-empty identifier, hunt_json_in_cdp_logs returns a
\* generic entity-like mapping only when the text of its id equals the
\* identifier; an entry whose only candidate has another id is passed over
\* and the scan goes on with the next older entry.
C29_GenericMatchesHint ==
    /\ []((hpc = "returned" /\ CallHint # <<>> /\ h_kind = "generic") =>
            PyStr(Get(h_res, Chars("id"))) = CallHint)
    /\ [][(/\ hpc = "scan"
           /\ h_pos >= 1
           /\ CallHint # <<>>
           /\ Fetchable(h_logs[h_pos])
           /\ h_logs[h_pos].body = "json"
           /\ ~IsMap(extract_closeup_from_json(h_logs[h_pos].data))
           /\ IsMap(find_first_pin_like_dict(h_logs[h_pos].data, CallHint))
           /\ PyStr(Get(find_first_pin_like_dict(h_logs[h_pos].data, CallHint), Chars("id"))) # CallHint)
          => (hpc' = "scan" /\ h_pos' = h_pos - 1)]_vars

C29_Witness ==
    /\ hpc = "returned"
    /\ h_call = 1
    /\ h_hint = <<"1">>
    /\ h_kind = "generic"
    /\ Len(h_logs) = 2
    /\ h_logs[2].data = Generic(JStr(<<"2">>))
    /\ h_fetched = << <<1, 2>>, <<1, 1>> >>
    /\ h_ret = 1

(***************************************************************************)
(* Script hunt of stage 3                                                  *)
(***************************************************************************)

\* the for loop over the blobs: the first blob with a detail-query answer or
\* with an entity-like mapping ends the loop and gives the candidate
RECURSIVE ScriptCandidate(_, _)
ScriptCandidate(blobs, pin_id) ==
    IF blobs = <<>> THEN NoMatch
    ELSE LET b == Head(blobs)
             close == extract_closeup_from_json(b)
             c2 == find_first_pin_like_dict(b, pin_id)
         IN  IF IsMap(close) THEN close
             ELSE IF IsMap(c2) THEN c2
             ELSE ScriptCandidate(Tail(blobs), pin_id)

\* the blobs a page can carry
BlobPool ==
    { Generic(JStr(<<"1">>)),
      Generic(JStr(<<"2">>)),
      CloseupPayload(DetailAnswer),
      JList(<<Generic(JStr(<<"1">>)), CloseupPayload(DetailAnswer)>>),
      JMap(<< <<<<"x">>, JInt(<<"1">>)>> >>) }

\* longest list of blobs
MaxBlobs == 2

InitScripts ==
    /\ s_blobs \in SeqsUpTo(BlobPool, MaxBlobs)
    /\ s_hint \in { <<>>, <<"1">> }
    /\ s_cand = NoMatch
    /\ spc = "call"

\* stage 3 of scrape_pin_detail once entered
ScriptHunt ==
    /\ spc = "call"
    /\ s_cand' = ScriptCandidate(s_blobs, s_hint)
    /\ spc' = "done"
    /\ UNCHANGED <<s_blobs, s_hint>>
    /\ UNCHANGED notScripts

NextScripts == ScriptHunt

InitSpecScripts == InitScripts /\ IdleCrawl /\ IdleRun /\ IdleFind /\ IdleNum /\ IdleDetail /\ IdleMerge /\ IdleHunt

\* the script hunt on its own
SpecScripts == InitSpecScripts /\ [][NextScripts]_vars

\* C23: when a blob gathered by the script hunt holds a detail-query shaped
\* payload, the candidate of stage 3 is the nested answer of such a payload,
\* whatever the blobs before it hold.
C23_DetailQueryPreferred ==
    (spc = "done" /\ \E i \in 1..Len(s_blobs) : IsMap(extract_closeup_from_json(s_blobs[i]))) =>
        \E i \in 1..Len(s_blobs) : s_cand = extract_closeup_from_json(s_blobs[i])

(***************************************************************************)
(* Claims about the frame of the closeup merge                             *)
(***************************************************************************)

\* every field that is not empty in before has the same value in after
KeepsFilled(before, after) == \A f \in FieldNames : before[f] # <<>> => after[f] = before[f]

\* C27: enrich_from_closeup_data(close, fields) returns a field-set in which
\* every field that was not empty in fields has the value it had; only fields
\* that were empty may differ. Stated for the second merge of each order:
\* the field-set given is the result of merging the other source into the
\* empty field-set.
C27_FilledFieldsKept ==
    mpc = "done" =>
        /\ KeepsFilled(m_one, m_ab)
        /\ KeepsFilled(enrich_from_closeup_data(m_b, EmptyFields), m_ba)
        /\ KeepsFilled(EmptyFields, m_one)

C27_Witness ==
    /\ mpc = "done"
    /\ \E f \in FieldNames :
         /\ m_one[f] # <<>>
         /\ enrich_from_closeup_data(m_b, EmptyFields)[f] \notin { <<>>, m_one[f] }
         /\ m_ab[f] = m_one[f]
    /\ \E f \in FieldNames : m_one[f] = <<>> /\ m_ab[f] # <<>>

(***************************************************************************)
(* Claim about the browser session of a run                                *)
(***************************************************************************)

\* C30: a run that has started a browser session has called driver.quit by
\* the time it has ended, whether it ended normally or with a failure.
C30_SessionClosedAtEnd == rpc \in {"done", "failed"} => driver # "open"

====
